---- MODULE Spec2Model ----
(***************************************************************************)
(* Model of datatool's multi-backend transfer engine                       *)
(* (tools/file_transfer_manager.py) and of the SSH path / session cache    *)
(* (tools/ssh_path.py).                                                    *)
(*                                                                         *)
(* Spec     : FileTransferManager.transfer_file, one step per statement    *)
(*            group of the method, over a small local file system and a    *)
(*            small cloud object store.                                    *)
(* SpecSsh  : SshPath.client and the lru_cache of get_ssh_client, with     *)
(*            enough other connections to fill the cache, and the exit     *)
(*            hook _close_all_ssh_clients.                                 *)
(* SpecUrl  : SshPath construction from URLs, its text forms, parent and   *)
(*            join.                                                        *)
(* SpecRemote, SpecSftp : the file operations of SshPath over its SFTP     *)
(*            sub-session, on a small remote file system.                  *)
(* SpecThreads : get_ssh_client called from several threads.               *)
(* SpecMkdir : SshPath.mkdir(parents=True) run by two actors at once.      *)
(* SpecFile : get_path_from_str (tools/paths.py) and File (tools/files.py).*)
(* SpecStrategy : the transfer strategies that read or write an SshPath    *)
(*            (files/transfer_strategies.py).                              *)
(***************************************************************************)
EXTENDS Integers, Sequences, FiniteSets, TLC

VARIABLES
    pc,             \* position inside transfer_file ("idle" between calls)
    source,         \* source_file.path of the running call
    target,         \* target_file.path of the running call
    delete_source,  \* the delete_source argument
    content,        \* source_file.content (the File's in-memory cache)
    trace,          \* calls and log records made by the running call, in order
    thrown,         \* exception raised inside the running call ("none" if none)
    raised_in,      \* the step that raised: "none", "mkdir", "classify", "strategy", "unlink"
    outcome,        \* what the caller got: "pending", "returned" or the exception
    before,         \* files / cloud / content as they were when the call started
    dirs,           \* local file system: the directories that exist
    files,          \* local file system: path -> bytes, Absent if no file
    cloud,          \* cloud object store: cloud path -> bytes, Absent if no object
    ncalls,         \* number of transfer_file calls started
    cache,          \* lru_cache of get_ssh_client: <<[key, client]>>, least recent first
    clients,        \* every SSHClient connected so far: id -> [key, active]
    registry,       \* _active_clients: ids of the clients registered for closing at exit
    paths,          \* the SshPath instances: handle -> [key, path, client, sftp]
                    \* (client 0 and sftp 0 are None)
    evicted,        \* keys whose cache entry has been evicted at some time
    nfill,          \* number of other connection tuples requested so far
    nother,         \* number of groups of other paths that have connected
    ndead,          \* number of transports that have gone inactive
    sftps,          \* every SFTP sub-session opened so far: id -> [client, closed]
    last,           \* the most recent SshPath operation and what it gave
    exited,         \* TRUE once the interpreter's exit hooks have run
    given,          \* the URL and the key file the program constructs its SshPath from
    rdirs,          \* remote file system: the directories that exist
    rfiles,         \* remote file system: location -> bytes of the files that exist
    rcalls,         \* SFTP requests made by the most recent SshPath operation, in order
    nwrites,        \* number of SshPath operations made that write to the remote side
    thr             \* concurrent callers: id -> where each one is in its call

tvars == <<pc, source, target, delete_source, content, trace, thrown, raised_in, outcome,
           before, dirs, files, cloud, ncalls>>
rvars == <<given, rdirs, rfiles, rcalls, nwrites>>
svars == <<cache, clients, registry, paths, evicted, nfill, nother, ndead, sftps, last,
           exited, rvars>>
cvars == <<thr>>
vars == <<tvars, svars, cvars>>

-----------------------------------------------------------------------------
(* Bounds and input sets *)

MaxCalls == 2

Absent == "absent"
Bytes == {"x", "y"}

NoPath == [kind |-> "none", loc |-> <<>>]

\* The concrete path classes that can reach transfer_file: pathlib's
\* PosixPath, cloudpathlib's S3Path and GSPath, SshPath, and an object of
\* some other type.
LocalSourceLocs == {<<"a.txt">>, <<"out", "sub", "a.txt">>}
LocalTargetLocs == LocalSourceLocs \cup {<<"out">>}
LocalFileLocs == LocalTargetLocs \cup {<<"out", "a.txt">>}
LocalDirLocs == {<<>>, <<"out">>, <<"out", "sub">>}

CloudPaths == {[kind |-> "S3Path", loc |-> <<"bucket", "a.txt">>],
               [kind |-> "GSPath", loc |-> <<"bucket", "a.txt">>]}
SshPaths == {[kind |-> "SshPath", loc |-> <<"host", "a.txt">>]}
OtherPaths == {[kind |-> "object", loc |-> <<>>]}

SourcePaths == {[kind |-> "PosixPath", loc |-> l] : l \in LocalSourceLocs}
                 \cup CloudPaths \cup SshPaths \cup OtherPaths
TargetPaths == {[kind |-> "PosixPath", loc |-> l] : l \in LocalTargetLocs}
                 \cup CloudPaths \cup SshPaths \cup OtherPaths

-----------------------------------------------------------------------------
(* Path types *)

\* Variant of IsPath: the cloud path classes taken for pathlib paths.
IsPath_or_cloud(p) == p.kind \in {"PosixPath", "S3Path", "GSPath", "AzureBlobPath"}

\* isinstance(p, Path): cloudpathlib's CloudPath and SshPath do not derive
\* from pathlib.Path.
IsPath(p) == p.kind = "PosixPath"

\* isinstance(p, CloudPath): S3Path, GSPath and AzureBlobPath derive from
\* CloudPath.
IsCloudPath(p) == p.kind \in {"S3Path", "GSPath", "AzureBlobPath"}

IsSshPath(p) == p.kind = "SshPath"

\* The backend family of a path handle (PathType = Path | CloudPath | SshPath).
Family(p) ==
    IF IsCloudPath(p) THEN "Cloud"
    ELSE IF IsPath(p) THEN "Local"
    ELSE IF IsSshPath(p) THEN "RemoteShell"
    ELSE "Unsupported"

\* The strategy written for each ordered pair of families.
StrategyFor(sf, tf) ==
    CASE sf = "Local" /\ tf = "Local" -> "local_to_local"
      [] sf = "Local" /\ tf = "Cloud" -> "local_to_cloud"
      [] sf = "Cloud" /\ tf = "Local" -> "cloud_to_local"
      [] sf = "Cloud" /\ tf = "Cloud" -> "cloud_to_cloud"
      [] sf = "Local" /\ tf = "RemoteShell" -> "local_to_ssh"
      [] sf = "RemoteShell" /\ tf = "Local" -> "ssh_to_local"
      [] sf = "RemoteShell" /\ tf = "Cloud" -> "ssh_to_cloud"
      [] sf = "Cloud" /\ tf = "RemoteShell" -> "cloud_to_ssh"
      [] sf = "RemoteShell" /\ tf = "RemoteShell" -> "ssh_to_ssh"
      [] OTHER -> "none"

-----------------------------------------------------------------------------
(* Local file system and cloud store primitives *)

Parent(loc) == IF loc = <<>> THEN <<>> ELSE SubSeq(loc, 1, Len(loc) - 1)
Name(loc) == IF loc = <<>> THEN "" ELSE loc[Len(loc)]
Prefixes(loc) == {SubSeq(loc, 1, i) : i \in 0..Len(loc)}

IsFile(fl, loc) == loc \in DOMAIN fl /\ fl[loc] # Absent
IsDir(ds, loc) == loc \in ds

\* Path.mkdir(parents=True, exist_ok=True) on directory d: every missing
\* prefix is created; a prefix that is a regular file makes it raise.
\* Result: [exc, dirs].
mkdir(d, ds, fl) ==
    IF \E p \in Prefixes(d) : IsFile(fl, p)
    THEN [exc |-> IF IsFile(fl, d) THEN "FileExistsError" ELSE "NotADirectoryError",
          dirs |-> ds]
    ELSE [exc |-> "none", dirs |-> ds \cup Prefixes(d)]

\* Where a copy or download to dst lands: inside dst when dst is a directory.
Landing(dst, name, ds) == IF IsDir(ds, dst) THEN Append(dst, name) ELSE dst

\* shutil.copy(src, dst). Result: [exc, files].
shutil_copy(src, dst, ds, fl) ==
    LET to == Landing(dst, Name(src), ds) IN
    IF ~IsFile(fl, src) THEN [exc |-> "FileNotFoundError", files |-> fl]
    ELSE IF to = src THEN [exc |-> "SameFileError", files |-> fl]
    ELSE IF ~IsDir(ds, Parent(to)) THEN [exc |-> "FileNotFoundError", files |-> fl]
    ELSE [exc |-> "none", files |-> [fl EXCEPT ![to] = fl[src]]]

\* CloudPath.upload_from(local source). Result: [exc, cloud].
upload_from(tgt, src, fl, cl) ==
    IF ~IsFile(fl, src) THEN [exc |-> "FileNotFoundError", cloud |-> cl]
    ELSE [exc |-> "none", cloud |-> [cl EXCEPT ![tgt] = fl[src]]]

\* CloudPath.download_to(local destination). Result: [exc, files].
download_to(src, dst, ds, fl, cl) ==
    LET to == Landing(dst, Name(src.loc), ds) IN
    IF cl[src] = Absent THEN [exc |-> "CloudPathNotExistsError", files |-> fl]
    ELSE IF ~IsDir(ds, Parent(to)) THEN [exc |-> "FileNotFoundError", files |-> fl]
    ELSE [exc |-> "none", files |-> [fl EXCEPT ![to] = cl[src]]]

\* CloudPath.copy(cloud destination). Result: [exc, cloud].
cloud_copy(src, dst, cl) ==
    IF cl[src] = Absent THEN [exc |-> "CloudPathNotExistsError", cloud |-> cl]
    ELSE [exc |-> "none", cloud |-> [cl EXCEPT ![dst] = cl[src]]]

\* source_file.path.unlink() on a local or a cloud path.
\* Result: [exc, files, cloud].
unlink(p, fl, cl) ==
    IF IsPath(p)
    THEN IF IsFile(fl, p.loc)
         THEN [exc |-> "none", files |-> [fl EXCEPT ![p.loc] = Absent], cloud |-> cl]
         ELSE [exc |-> "FileNotFoundError", files |-> fl, cloud |-> cl]
    ELSE IF cl[p] # Absent
         THEN [exc |-> "none", files |-> fl, cloud |-> [cl EXCEPT ![p] = Absent]]
         ELSE [exc |-> "FileNotFoundError", files |-> fl, cloud |-> cl]

-----------------------------------------------------------------------------
(* Records of what a call did *)

Ev(op, name, a, b) == [op |-> op, name |-> name, a |-> a, b |-> b]

-----------------------------------------------------------------------------
(* Strings, urllib.parse.urlparse and pathlib.PurePosixPath *)

\* A string is a sequence of pieces: a piece is one of the characters that
\* urlparse or PurePosixPath look for, a decimal digit, or a run of other
\* characters ("host", "b.txt", ".").
Delimiters == {"/", ":", "@", "?", "#", "[", "]"}
DigitSeq == <<"0", "1", "2", "3", "4", "5", "6", "7", "8", "9">>
Digits == {DigitSeq[i] : i \in 1..Len(DigitSeq)}

Pieces(t) == {t[i] : i \in 1..Len(t)}

\* The least and the greatest of a set of positions, 0 for the empty set.
First(at) == IF at = {} THEN 0 ELSE CHOOSE i \in at : \A j \in at : i <= j
Final(at) == IF at = {} THEN 0 ELSE CHOOSE i \in at : \A j \in at : i >= j

\* str.find / str.rfind for any of the characters cs: position, 0 if none.
find(t, cs) == First({i \in 1..Len(t) : t[i] \in cs})
rfind(t, cs) == Final({i \in 1..Len(t) : t[i] \in cs})

\* The string t cut at position i: <<head, separator, tail>>.
CutAt(t, i) == <<SubSeq(t, 1, i - 1), <<t[i]>>, SubSeq(t, i + 1, Len(t))>>

\* str.partition and str.rpartition: <<head, separator, tail>>.
partition(t, c) ==
    LET cut(i) == IF i = 0 THEN <<t, <<>>, <<>>>> ELSE CutAt(t, i)
    IN cut(find(t, {c}))
rpartition(t, c) ==
    LET cut(i) == IF i = 0 THEN <<<<>>, <<>>, t>> ELSE CutAt(t, i)
    IN cut(rfind(t, {c}))

\* str.split(c).
RECURSIVE split(_, _)
split(t, c) ==
    LET cut(i) == IF i = 0 THEN <<t>>
                  ELSE <<SubSeq(t, 1, i - 1)>> \o split(SubSeq(t, i + 1, Len(t)), c)
    IN cut(find(t, {c}))

\* c.join(parts).
RECURSIVE join(_, _)
join(parts, c) ==
    IF parts = <<>> THEN <<>>
    ELSE IF Len(parts) = 1 THEN parts[1]
    ELSE parts[1] \o <<c>> \o join(Tail(parts), c)

\* str.lstrip(c) and str.strip(c).
RECURSIVE lstrip(_, _)
lstrip(t, c) == IF t # <<>> /\ Head(t) = c THEN lstrip(Tail(t), c) ELSE t
RECURSIVE rstrip(_, _)
rstrip(t, c) ==
    IF t # <<>> /\ t[Len(t)] = c THEN rstrip(SubSeq(t, 1, Len(t) - 1), c) ELSE t
strip(t, c) == rstrip(lstrip(t, c), c)

\* str.lower.
lower_piece(x) ==
    CASE x = "Host" -> "host"
      [] x = "SSH" -> "ssh"
      [] OTHER -> x
lower(t) == [i \in 1..Len(t) |-> lower_piece(t[i])]

\* str.isdigit, int(str) and str(int).
isdigit(t) == t # <<>> /\ \A i \in 1..Len(t) : t[i] \in Digits
DigitValue(d) == (CHOOSE i \in 1..Len(DigitSeq) : DigitSeq[i] = d) - 1
RECURSIVE int(_)
int(t) ==
    IF t = <<>> THEN 0
    ELSE int(SubSeq(t, 1, Len(t) - 1)) * 10 + DigitValue(t[Len(t)])
RECURSIVE str_int(_)
str_int(n) ==
    IF n < 10 THEN <<DigitSeq[n + 1]>>
    ELSE str_int(n \div 10) \o <<DigitSeq[(n % 10) + 1]>>

\* urlparse(url): scheme, netloc and path; the query and the fragment are
\* split off the path. The scheme "ssh" has no ;parameters to split off.
\* Result: [exc, scheme, netloc, path].
urlparse(url) ==
    LET parsed(scheme, netloc, rest) ==
            [exc |-> IF ("[" \in Pieces(netloc)) # ("]" \in Pieces(netloc))
                     THEN "ValueError" ELSE "none",
             scheme |-> scheme, netloc |-> netloc,
             path |-> partition(partition(rest, "#")[1], "?")[1]]
        netloc_to(scheme, after, d) ==
            IF d = 0 THEN parsed(scheme, after, <<>>)
            ELSE parsed(scheme, SubSeq(after, 1, d - 1), SubSeq(after, d, Len(after)))
        after_scheme(scheme, rest) ==
            IF Len(rest) >= 2 /\ rest[1] = "/" /\ rest[2] = "/"
            THEN netloc_to(scheme, SubSeq(rest, 3, Len(rest)),
                           find(SubSeq(rest, 3, Len(rest)), {"/", "?", "#"}))
            ELSE parsed(scheme, <<>>, rest)
        scheme_to(i) ==
            IF /\ i > 1
               /\ url[1] \notin Digits
               /\ \A j \in 1..(i - 1) : url[j] \notin Delimiters
            THEN after_scheme(lower(SubSeq(url, 1, i - 1)), SubSeq(url, i + 1, Len(url)))
            ELSE after_scheme(<<>>, url)
    IN scheme_to(find(url, {":"}))

\* ParseResult.username: None is the empty string here.
username(netloc) ==
    LET user(r) == IF r[2] # <<>> THEN partition(r[1], ":")[1] ELSE <<>>
    IN user(rpartition(netloc, "@"))

\* ParseResult._hostinfo: <<hostname, port>> as written in the netloc.
hostinfo(netloc) ==
    LET bracketed(b) == <<b[1], partition(b[3], ":")[3]>>
        plain(h) == <<h[1], h[3]>>
        info(hi, br) == IF br[2] # <<>> THEN bracketed(partition(br[3], "]"))
                        ELSE plain(partition(hi, ":"))
        host(hi) == info(hi, partition(hi, "["))
    IN host(rpartition(netloc, "@")[3])

\* ParseResult.hostname: lower case, None is the empty string here.
hostname(netloc) == lower(hostinfo(netloc)[1])

\* ParseResult.port. Result: [exc, port], port -1 for None.
port(netloc) ==
    LET number(n) == IF n <= 65535 THEN [exc |-> "none", port |-> n]
                     ELSE [exc |-> "ValueError", port |-> -1]
        cast(t) == IF t = <<>> THEN [exc |-> "none", port |-> -1]
                   ELSE IF isdigit(t) THEN number(int(t))
                   ELSE [exc |-> "ValueError", port |-> -1]
    IN cast(hostinfo(netloc)[2])

\* PurePosixPath(t): [root, parts]. Two leading slashes are kept as the
\* root "//", any other number of them is "/"; empty and "." components
\* are dropped.
IsPart(x) == x # <<>> /\ x # <<".">>
PurePosixPath(t) ==
    LET rooted(n, rel) ==
            [root |-> IF n = 0 THEN <<>> ELSE IF n = 2 THEN <<"/", "/">> ELSE <<"/">>,
             parts |-> SelectSeq(split(rel, "/"), IsPart)]
        relative(rel) == rooted(Len(t) - Len(rel), rel)
    IN relative(lstrip(t, "/"))

\* str(PurePosixPath), .parent, .name and the / operator.
posix_str(pp) ==
    IF pp.root = <<>> /\ pp.parts = <<>> THEN <<".">>
    ELSE pp.root \o join(pp.parts, "/")
posix_parent(pp) ==
    IF pp.parts = <<>> THEN pp
    ELSE [pp EXCEPT !.parts = SubSeq(@, 1, Len(@) - 1)]
posix_name(pp) == IF pp.parts = <<>> THEN <<>> ELSE pp.parts[Len(pp.parts)]
posix_join(pp, other) ==
    LET joined(o) == IF o.root # <<>> THEN o
                     ELSE [root |-> pp.root, parts |-> pp.parts \o o.parts]
    IN joined(PurePosixPath(other))

-----------------------------------------------------------------------------
(* get_ssh_client and SshPath.client *)

\* @lru_cache(maxsize=32)
maxsize == 32

\* Number of times a group of other paths (other hosts) may connect.
MaxOther == 2

\* Sizes of such a group: one other path, or enough of them to fill the cache.
GroupSizes == {1, maxsize}

\* Number of transports that may go inactive.
MaxDead == 1

Handles == {"p1", "p2"}

\* (hostname, port, username, password, key_filename) of the first SshPath,
\* and the tuples that differ from it in exactly one component. Host and
\* user names are strings, written as sequences of text pieces; the user
\* name None is the empty one (the code treats None and '' alike).
BaseKey == [hostname |-> <<"host">>, port |-> 22, username |-> <<"user">>,
            password |-> "None", key_filename |-> "None"]
StudyKeys == {BaseKey,
              [BaseKey EXCEPT !.hostname = <<"host2">>],
              [BaseKey EXCEPT !.port = 2222],
              [BaseKey EXCEPT !.username = <<>>],
              [BaseKey EXCEPT !.password = "pw"],
              [BaseKey EXCEPT !.key_filename = "/k.pem"]}

\* The i-th other connection tuple: another host.
FillerKey(i) == [BaseKey EXCEPT !.hostname = <<"other">>, !.port = 1000 + i]

\* Variant of cache_key: the password left out of the cache key.
cache_key_without_password(k) == [k EXCEPT !.password = "None"]

\* The key lru_cache builds from the arguments of get_ssh_client: all five.
cache_key(k) == k

\* Position of key k in the cache, 0 if it has no entry.
Find(cch, k) ==
    IF \E i \in 1..Len(cch) : cch[i].key = k
    THEN CHOOSE i \in 1..Len(cch) : cch[i].key = k
    ELSE 0

Remove(q, i) == SubSeq(q, 1, i - 1) \o SubSeq(q, i + 1, Len(q))

\* Variant of connect: the client is registered before client.connect is
\* tried.
connect_registers_first(k, fail, cls, reg) ==
    [exc |-> IF fail THEN "SSHException" ELSE "none",
     client |-> IF fail THEN 0 ELSE Len(cls) + 1,
     clients |-> Append(cls, [key |-> k, active |-> ~fail]),
     registry |-> reg \cup {Len(cls) + 1}, attempts |-> 1]

\* The body of get_ssh_client: one client.connect; if it raises, the client
\* is dropped unregistered, else it is added to _active_clients.
\* Result: [exc, client, clients, registry, attempts].
connect(k, fail, cls, reg) ==
    IF fail
    THEN [exc |-> "SSHException", client |-> 0, clients |-> cls, registry |-> reg,
          attempts |-> 1]
    ELSE [exc |-> "none", client |-> Len(cls) + 1,
          clients |-> Append(cls, [key |-> k, active |-> TRUE]),
          registry |-> reg \cup {Len(cls) + 1}, attempts |-> 1]

\* lru_cache on a hit: the entry at position i becomes the most recent.
lru_hit(cch, i) == Append(Remove(cch, i), cch[i])

\* Variants of lru_insert: a full cache grows instead of evicting, and the
\* entry is added without looking whether the key has been cached meanwhile.
lru_insert_no_eviction(cch, ck, id, evd) ==
    IF Find(cch, ck) # 0 THEN [cache |-> cch, evicted |-> evd]
    ELSE [cache |-> Append(cch, [key |-> ck, client |-> id]), evicted |-> evd]
lru_insert_unchecked(cch, ck, id, evd) ==
    IF Len(cch) >= maxsize
    THEN [cache |-> Append(Tail(cch), [key |-> ck, client |-> id]),
          evicted |-> evd \cup {Head(cch).key}]
    ELSE [cache |-> Append(cch, [key |-> ck, client |-> id]), evicted |-> evd]

\* lru_cache once the wrapped function has returned: if the key has been
\* cached meanwhile (by another caller) the cache is left alone; else the
\* result is cached as the most recent entry, in place of the least recent
\* one when the cache is full. Result: [cache, evicted].
lru_insert(cch, ck, id, evd) ==
    IF Find(cch, ck) # 0 THEN [cache |-> cch, evicted |-> evd]
    ELSE IF Len(cch) >= maxsize
    THEN [cache |-> Append(Tail(cch), [key |-> ck, client |-> id]),
          evicted |-> evd \cup {Head(cch).key}]
    ELSE [cache |-> Append(cch, [key |-> ck, client |-> id]), evicted |-> evd]

\* get_ssh_client(hostname, port, username, password, key_filename) under
\* lru_cache, called by one caller at a time: a hit returns the cached
\* client; a miss runs the body and caches what it returns. A connect that
\* fails raises and caches nothing.
\* Result: [exc, client, cache, clients, registry, evicted, attempts].
get_ssh_client(k, fail, cch, cls, reg, evd) ==
    LET cached(c, ins) ==
            [exc |-> "none", client |-> c.client, cache |-> ins.cache,
             clients |-> c.clients, registry |-> c.registry, evicted |-> ins.evicted,
             attempts |-> c.attempts]
        called(ck, c) ==
            IF c.exc # "none"
            THEN [exc |-> c.exc, client |-> 0, cache |-> cch, clients |-> c.clients,
                  registry |-> c.registry, evicted |-> evd, attempts |-> c.attempts]
            ELSE cached(c, lru_insert(cch, ck, c.client, evd))
        lookup(ck, i) ==
            IF i # 0
            THEN [exc |-> "none", client |-> cch[i].client, cache |-> lru_hit(cch, i),
                  clients |-> cls, registry |-> reg, evicted |-> evd, attempts |-> 0]
            ELSE called(ck, connect(k, fail, cls, reg))
        call(ck) == lookup(ck, Find(cch, ck))
    IN call(cache_key(k))

\* get_ssh_client called for n other connection tuples in turn, the first
\* being FillerKey(first). st and the result: [cache, clients, registry, evicted].
RECURSIVE ConnectOthers(_, _, _)
ConnectOthers(n, first, st) ==
    LET next(r) ==
            IF r.exc # "none" THEN st
            ELSE ConnectOthers(n - 1, first + 1,
                               [cache |-> r.cache, clients |-> r.clients,
                                registry |-> r.registry, evicted |-> r.evicted])
    IN IF n = 0 THEN st
       ELSE next(get_ssh_client(FillerKey(first), FALSE, st.cache, st.clients,
                                st.registry, st.evicted))

\* SshPath.client decides whether to ask get_ssh_client: _client is None or
\* its transport is not active.
needs_client(c, cls) == c = 0 \/ ~cls[c].active

\* Variant of needs_sftp: a sub-session is opened on every access.
needs_sftp_always(s, sfs) == TRUE

\* SshPath.sftp decides whether to open a sub-session: _sftp is None or its
\* socket is closed.
needs_sftp(s, sfs) == s = 0 \/ sfs[s].closed

\* The clients that something still refers to: the cache entries and the
\* _client attribute of the SshPath instances.
Referenced(cch, pths) ==
    {cch[i].client : i \in 1..Len(cch)}
        \cup ({pths[h].client : h \in DOMAIN pths} \ {0})

\* _active_clients is a WeakSet: a client nothing refers to any more is
\* collected (reference counting) and leaves the set.
WeakSet(reg, cch, pths) == reg \cap Referenced(cch, pths)

\* The session state the properties work on.
Sessions == [cache |-> cache, clients |-> clients, registry |-> registry,
             evicted |-> evicted, sftps |-> sftps]

\* SshPath.client read on instance p. Result: [exc, p, st, asked, attempts]:
\* whether get_ssh_client was called and how many connects were attempted.
client_property(p, fail, st) ==
    LET got(r) ==
            [exc |-> r.exc,
             p |-> IF r.exc = "none" THEN [p EXCEPT !.client = r.client] ELSE p,
             st |-> [st EXCEPT !.cache = r.cache, !.clients = r.clients,
                               !.registry = r.registry, !.evicted = r.evicted],
             asked |-> TRUE, attempts |-> r.attempts]
    IN IF needs_client(p.client, st.clients)
       THEN got(get_ssh_client(p.key, fail, st.cache, st.clients,
                               st.registry, st.evicted))
       ELSE [exc |-> "none", p |-> p, st |-> st, asked |-> FALSE, attempts |-> 0]

\* SshPath.sftp read on instance p: self.client.open_sftp() when a
\* sub-session is needed; open_sftp raises on a client whose transport is
\* not active. Result: [exc, p, st, asked, attempts].
sftp_property(p, fail, st) ==
    LET opened(c) ==
            IF c.exc # "none" THEN c
            ELSE IF ~c.st.clients[c.p.client].active
            THEN [c EXCEPT !.exc = "SSHException"]
            ELSE [exc |-> "none",
                  p |-> [c.p EXCEPT !.sftp = Len(c.st.sftps) + 1],
                  st |-> [c.st EXCEPT !.sftps =
                             Append(@, [client |-> c.p.client, closed |-> FALSE])],
                  asked |-> c.asked, attempts |-> c.attempts]
    IN IF needs_sftp(p.sftp, st.sftps)
       THEN opened(client_property(p, fail, st))
       ELSE [exc |-> "none", p |-> p, st |-> st, asked |-> FALSE, attempts |-> 0]

\* A transport that is closed or lost takes its sub-sessions' sockets along.
close_channels(sfs, gone) ==
    [i \in 1..Len(sfs) |-> IF sfs[i].client \in gone
                           THEN [sfs[i] EXCEPT !.closed = TRUE] ELSE sfs[i]]

\* Variant of exit_targets: only the clients the cache still holds.
exit_targets_cached_only(reg, cch) == {cch[i].client : i \in 1..Len(cch)}

\* list(_active_clients): the clients _close_all_ssh_clients goes through.
exit_targets(reg, cch) == reg

\* _close_all_ssh_clients: close every registered client whose transport is
\* active.
close_all_ssh_clients(cls, targets) ==
    [c \in 1..Len(cls) |-> IF c \in targets /\ cls[c].active
                           THEN [cls[c] EXCEPT !.active = FALSE] ELSE cls[c]]

\* No SshPath operation has been made yet.
NoOp == [op |-> "none"]

\* No SshPath is in use for file operations: the remote side is an empty
\* root directory.
RemoteIdle ==
    /\ given = [url |-> <<>>, key |-> "None"]
    /\ rdirs = {<<>>}
    /\ rfiles = <<>>
    /\ rcalls = <<>>
    /\ nwrites = 0
    /\ thr = <<>>

\* The path of the SshPath instances whose sessions are studied.
SessionPath == <<"/", "x">>

SshIdle ==
    /\ cache = <<>>
    /\ clients = <<>>
    /\ registry = {}
    /\ paths = [h \in Handles |->
                  [key |-> BaseKey, path |-> SessionPath, client |-> 0, sftp |-> 0]]
    /\ evicted = {}
    /\ nfill = 0
    /\ nother = 0
    /\ ndead = 0
    /\ sftps = <<>>
    /\ last = NoOp
    /\ exited = FALSE
    /\ RemoteIdle

TransferIdle ==
    /\ pc = "idle"
    /\ source = NoPath
    /\ target = NoPath
    /\ delete_source = FALSE
    /\ content = "None"
    /\ trace = <<>>
    /\ thrown = "none"
    /\ raised_in = "none"
    /\ outcome = "pending"
    /\ dirs = {<<>>}
    /\ files = [l \in LocalFileLocs |-> Absent]
    /\ cloud = [c \in CloudPaths |-> Absent]
    /\ before = [files |-> files, cloud |-> cloud, dirs |-> dirs, content |-> "None"]
    /\ ncalls = 0

\* Two SshPath instances have been constructed: p1 with the base tuple, p2
\* with the same tuple or one that differs in one component.
InitSsh ==
    /\ TransferIdle
    /\ cache = <<>>
    /\ clients = <<>>
    /\ registry = {}
    /\ paths \in {[h \in Handles |->
                     [key |-> IF h = "p1" THEN BaseKey ELSE k,
                      path |-> SessionPath, client |-> 0, sftp |-> 0]] :
                  k \in StudyKeys}
    /\ evicted = {}
    /\ nfill = 0
    /\ nother = 0
    /\ ndead = 0
    /\ sftps = <<>>
    /\ last = NoOp
    /\ exited = FALSE
    /\ RemoteIdle

\* SshPath.client: the property is read on handle h.
Client(h, fail) ==
    /\ ~exited
    /\ h \in DOMAIN paths
    /\ ~(fail /\ ~needs_client(paths[h].client, clients))
    /\ LET read(r) ==
            /\ paths' = [paths EXCEPT ![h] = r.p]
            /\ cache' = r.st.cache
            /\ clients' = r.st.clients
            /\ evicted' = r.st.evicted
            /\ registry' = WeakSet(r.st.registry, r.st.cache, paths')
            /\ last' = [op |-> "client", h |-> h, exc |-> r.exc,
                        held |-> paths[h].client,
                        stale |-> paths[h].client # 0
                                    /\ ~clients[paths[h].client].active,
                        client |-> r.p.client,
                        asked |-> r.asked, attempts |-> r.attempts]
       IN read(client_property(paths[h], fail, Sessions))
    /\ UNCHANGED <<nfill, nother, ndead, sftps, exited, rvars, tvars, cvars>>

\* n further SshPath instances, each for a host not requested before, read
\* their client property one after the other: n calls of get_ssh_client.
OtherClients(n) ==
    /\ ~exited
    /\ nother < MaxOther
    /\ LET connected(r) ==
            /\ cache' = r.cache
            /\ clients' = r.clients
            /\ registry' = WeakSet(r.registry, r.cache, paths)
            /\ evicted' = r.evicted
       IN connected(ConnectOthers(n, nfill + 1,
                                  [cache |-> cache, clients |-> clients,
                                   registry |-> registry, evicted |-> evicted]))
    /\ nfill' = nfill + n
    /\ nother' = nother + 1
    /\ last' = [op |-> "others"]
    /\ UNCHANGED <<paths, ndead, sftps, exited, rvars, tvars, cvars>>

\* The transport of a client held by one of the handles goes inactive (the
\* server or the network dropped the connection).
TransportDies(c) ==
    /\ ~exited
    /\ ndead < MaxDead
    /\ c \in 1..Len(clients)
    /\ \E h \in DOMAIN paths : paths[h].client = c
    /\ clients[c].active
    /\ clients' = [clients EXCEPT ![c].active = FALSE]
    /\ sftps' = close_channels(sftps, {c})
    /\ ndead' = ndead + 1
    /\ last' = [op |-> "dies", client |-> c]
    /\ UNCHANGED <<cache, registry, paths, evicted, nfill, nother, exited, rvars, tvars, cvars>>

\* The interpreter exits: atexit runs _close_all_ssh_clients, and nothing
\* runs after it.
AtExit ==
    /\ ~exited
    /\ LET targets == exit_targets(registry, cache)
       IN /\ clients' = close_all_ssh_clients(clients, targets)
          /\ sftps' = close_channels(sftps, targets)
    /\ exited' = TRUE
    /\ last' = [op |-> "atexit",
                closed |-> {c \in exit_targets(registry, cache) : clients[c].active}]
    /\ UNCHANGED <<cache, registry, paths, evicted, nfill, nother, ndead, rvars, tvars, cvars>>

NextSsh ==
    \/ \E h \in Handles, fail \in BOOLEAN : Client(h, fail)
    \/ \E n \in GroupSizes : OtherClients(n)
    \/ \E c \in 1..Len(clients) : TransportDies(c)
    \/ AtExit

SpecSsh == InitSsh /\ [][NextSsh]_vars

-----------------------------------------------------------------------------
(* get_ssh_client called from several threads *)

\* Number of calls of get_ssh_client the threads may make in all.
MaxThreadCalls == 3

Threads == {"t1", "t2", "t3"}
ThreadKeys == {BaseKey, [BaseKey EXCEPT !.port = 2222]}

\* The cache, the clients and the registry after a program has connected to
\* n other hosts, one after the other.
AfterOthers(n) ==
    ConnectOthers(n, 1, [cache |-> <<>>, clients |-> <<>>, registry |-> {},
                         evicted |-> {}])

\* No thread is inside get_ssh_client; the program has connected to no other
\* host yet, or to one fewer than the cache holds.
InitThreads ==
    /\ TransferIdle
    /\ \E n \in {0, maxsize - 1} :
          /\ cache = AfterOthers(n).cache
          /\ clients = AfterOthers(n).clients
          /\ registry = AfterOthers(n).registry
          /\ evicted = AfterOthers(n).evicted
          /\ nfill = n
    /\ paths = <<>>
    /\ nother = 0
    /\ ndead = 0
    /\ sftps = <<>>
    /\ last = NoOp
    /\ exited = FALSE
    /\ given = [url |-> <<>>, key |-> "None"]
    /\ rdirs = {<<>>}
    /\ rfiles = <<>>
    /\ rcalls = <<>>
    /\ nwrites = 0
    /\ thr = [t \in Threads |->
                [pc |-> "idle", key |-> BaseKey, client |-> 0, exc |-> "none", n |-> 0]]

\* What a step of a thread inside get_ssh_client leaves alone.
ThreadFrame ==
    UNCHANGED <<tvars, paths, nfill, nother, ndead, sftps, last, exited, rvars>>

\* Thread t calls get_ssh_client(k): the lru_cache wrapper looks the key up
\* under its lock; a hit is returned at once.
ThreadLookup(t, k) ==
    /\ thr[t].pc = "idle"
    /\ thr["t1"].n + thr["t2"].n + thr["t3"].n < MaxThreadCalls
    /\ LET found(i) ==
               /\ cache' = IF i # 0 THEN lru_hit(cache, i) ELSE cache
               /\ thr' = [thr EXCEPT ![t] =
                            [pc |-> IF i # 0 THEN "done" ELSE "body", key |-> k,
                             client |-> IF i # 0 THEN cache[i].client ELSE 0,
                             exc |-> "none", n |-> @.n + 1]]
               /\ registry' = WeakSet(registry, cache', thr')
       IN found(Find(cache, cache_key(k)))
    /\ UNCHANGED <<clients, evicted>>
    /\ ThreadFrame

\* The body of get_ssh_client runs in thread t, outside the wrapper's lock.
ThreadConnect(t, fail) ==
    /\ thr[t].pc = "body"
    /\ LET made(c) ==
               /\ clients' = c.clients
               /\ thr' = [thr EXCEPT ![t].pc = IF c.exc = "none" THEN "insert" ELSE "done",
                                     ![t].client = c.client,
                                     ![t].exc = c.exc]
               /\ registry' = WeakSet(c.registry, cache, thr')
       IN made(connect(thr[t].key, fail, clients, registry))
    /\ UNCHANGED <<cache, evicted>>
    /\ ThreadFrame

\* The wrapper stores the result of thread t under its lock and returns it.
ThreadInsert(t) ==
    /\ thr[t].pc = "insert"
    /\ LET stored(r) ==
               /\ cache' = r.cache
               /\ evicted' = r.evicted
               /\ thr' = [thr EXCEPT ![t].pc = "done"]
               /\ registry' = WeakSet(registry, cache', thr')
       IN stored(lru_insert(cache, cache_key(thr[t].key), thr[t].client, evicted))
    /\ UNCHANGED clients
    /\ ThreadFrame

\* The caller in thread t is done with what it got.
ThreadReturn(t) ==
    /\ thr[t].pc = "done"
    /\ thr' = [thr EXCEPT ![t].pc = "idle", ![t].client = 0, ![t].exc = "none"]
    /\ registry' = WeakSet(registry, cache, thr')
    /\ UNCHANGED <<cache, clients, evicted>>
    /\ ThreadFrame

NextThreads ==
    \/ \E t \in Threads, k \in ThreadKeys : ThreadLookup(t, k)
    \/ \E t \in Threads, fail \in BOOLEAN : ThreadConnect(t, fail)
    \/ \E t \in Threads : ThreadInsert(t)
    \/ \E t \in Threads : ThreadReturn(t)

SpecThreads == InitThreads /\ [][NextThreads]_vars

-----------------------------------------------------------------------------
(* SshPath: construction, text forms, parent and join *)

\* self.port = parsed_url.port or 22
DefaultPort == 22
port_or_default(n) == IF n = -1 \/ n = 0 THEN DefaultPort ELSE n

\* SshPath(url, password, private_key_path). Result: [exc] or [exc, p].
SshPath_init(url, password, private_key_path) ==
    LET made(u, host, pt) ==
            IF u.exc # "none" THEN [exc |-> u.exc]
            ELSE IF u.scheme # <<"ssh">> THEN [exc |-> "ValueError"]
            ELSE IF pt.exc # "none" THEN [exc |-> pt.exc]
            ELSE IF host = <<>> THEN [exc |-> "ValueError"]
            ELSE [exc |-> "none",
                  p |-> [key |-> [hostname |-> host,
                                  port |-> port_or_default(pt.port),
                                  username |-> username(u.netloc),
                                  password |-> password,
                                  key_filename |-> private_key_path],
                         path |-> u.path, client |-> 0, sftp |-> 0]]
        init(u) == made(u, hostname(u.netloc), port(u.netloc))
    IN init(urlparse(url))

\* Variant of user_part: the password written next to the user name.
user_part_with_password(p) ==
    IF p.key.password # "None"
    THEN p.key.username \o <<":", p.key.password, "@">>
    ELSE IF p.key.username # <<>> THEN p.key.username \o <<"@">> ELSE <<>>

\* user_part = f"{self.username}@" if self.username else ""
user_part(p) == IF p.key.username # <<>> THEN p.key.username \o <<"@">> ELSE <<>>

\* SshPath.__str__
SshPath_str(p) ==
    <<"ssh", ":", "/", "/">> \o user_part(p) \o p.key.hostname \o <<":">>
        \o str_int(p.key.port) \o p.path

\* SshPath.__repr__
SshPath_repr(p) ==
    <<"SshPath('">> \o SshPath_str(p) \o <<"'">>
        \o (IF p.key.key_filename # "None"
            THEN <<", private_key_path='", p.key.key_filename, "'">> ELSE <<>>)
        \o <<")">>

\* The URL that parent and __truediv__ build for the path text t.
rebuilt_url(p, t) ==
    <<"ssh", ":", "/", "/">> \o p.key.username \o <<"@">> \o p.key.hostname
        \o <<":">> \o str_int(p.key.port) \o t

\* SshPath.parent
SshPath_parent(p) ==
    SshPath_init(rebuilt_url(p, posix_str(posix_parent(PurePosixPath(p.path)))),
                 p.key.password, p.key.key_filename)

\* SshPath.__truediv__
SshPath_truediv(p, other) ==
    SshPath_init(rebuilt_url(p, posix_str(posix_join(PurePosixPath(p.path), other))),
                 p.key.password, p.key.key_filename)

\* SshPath.name
SshPath_name(p) == posix_name(PurePosixPath(p.path))

\* SshPath.is_absolute
SshPath_is_absolute(p) == TRUE

\* URLs a program may construct a SshPath from.
Ssh == <<"ssh", ":", "/", "/">>
Urls == {Ssh \o <<"user", "@", "host", ":", "2", "2", "2", "2", "/", "a", "/", "b.txt">>,
         Ssh \o <<"host", "/", "p">>,
         Ssh \o <<"Host", "/">>,
         Ssh \o <<"host">>,
         Ssh \o <<"[", ":", ":", "1", "]", "/", "p">>,
         Ssh \o <<"user", ":", "secret", "@", "host", "/", "a", "?", "b">>,
         <<"sftp", ":", "/", "/", "host", "/", "p">>,
         Ssh \o <<"/", "p">>}
Passwords == {"None", "pw"}
KeyFiles == {"None", "/k.pem"}

\* Operands of the / operator.
Segments == {<<"sub", "/", "y">>, <<"a", "#", "b">>, <<"/", "etc">>}

\* The handle that receives what is derived from handle h.
Derived(h) == IF h = "p1" THEN "q1" ELSE "q2"

\* The program has chosen the URL and the key file; no SshPath exists yet.
InitUrl ==
    /\ TransferIdle
    /\ cache = <<>>
    /\ clients = <<>>
    /\ registry = {}
    /\ paths = <<>>
    /\ evicted = {}
    /\ nfill = 0
    /\ nother = 0
    /\ ndead = 0
    /\ sftps = <<>>
    /\ last = NoOp
    /\ exited = FALSE
    /\ given \in [url : Urls, key : KeyFiles]
    /\ rdirs = {<<>>}
    /\ rfiles = <<>>
    /\ rcalls = <<>>
    /\ nwrites = 0
    /\ thr = <<>>

\* What the operations below leave alone.
Untouched ==
    UNCHANGED <<cache, clients, registry, evicted, nfill, nother, ndead, sftps, exited,
                rvars, tvars, cvars>>

\* h = SshPath(url, password=pw, private_key_path=key)
New(h, pw) ==
    /\ ~exited
    /\ h \notin DOMAIN paths
    /\ LET made(r) ==
            /\ paths' = IF r.exc = "none" THEN (h :> r.p) @@ paths ELSE paths
            /\ last' = [op |-> "new", h |-> h, to |-> h, exc |-> r.exc]
       IN made(SshPath_init(given.url, pw, given.key))
    /\ Untouched

\* q = h.parent
ParentOf(h) ==
    /\ ~exited
    /\ h \in DOMAIN paths
    /\ LET made(r) ==
            /\ paths' = IF r.exc = "none" THEN (Derived(h) :> r.p) @@ paths ELSE paths
            /\ last' = [op |-> "parent", h |-> h, to |-> Derived(h), exc |-> r.exc,
                        other |-> <<>>, was |-> paths[h]]
       IN made(SshPath_parent(paths[h]))
    /\ Untouched

\* q = h / other
Join(h, other) ==
    /\ ~exited
    /\ h \in DOMAIN paths
    /\ LET made(r) ==
            /\ paths' = IF r.exc = "none" THEN (Derived(h) :> r.p) @@ paths ELSE paths
            /\ last' = [op |-> "join", h |-> h, to |-> Derived(h), exc |-> r.exc,
                        other |-> other, was |-> paths[h]]
       IN made(SshPath_truediv(paths[h], other))
    /\ Untouched

\* q = SshPath(str(h), password, private_key_path)
FromStr(h) ==
    /\ ~exited
    /\ h \in DOMAIN paths
    /\ LET made(r) ==
            /\ paths' = IF r.exc = "none" THEN (Derived(h) :> r.p) @@ paths ELSE paths
            /\ last' = [op |-> "fromstr", h |-> h, to |-> Derived(h), exc |-> r.exc]
       IN made(SshPath_init(SshPath_str(paths[h]), paths[h].key.password,
                            paths[h].key.key_filename))
    /\ Untouched

\* str(h), repr(h), h.name or h.is_absolute() is read.
Read(h, what) ==
    /\ ~exited
    /\ h \in DOMAIN paths
    /\ last' = [op |-> what, h |-> h,
                out |-> CASE what = "str" -> SshPath_str(paths[h])
                          [] what = "repr" -> SshPath_repr(paths[h])
                          [] what = "name" -> SshPath_name(paths[h])
                          [] what = "is_absolute" ->
                                IF SshPath_is_absolute(paths[h])
                                THEN <<"True">> ELSE <<"False">>]
    /\ UNCHANGED paths
    /\ Untouched

Reads == {"str", "repr", "name", "is_absolute"}
TextForms == {"str", "repr"}

NextUrl ==
    \/ \E h \in Handles, pw \in Passwords : New(h, pw)
    \/ \E h \in Handles : ParentOf(h)
    \/ \E h \in Handles, other \in Segments : Join(h, other)
    \/ \E h \in Handles : FromStr(h)
    \/ \E h \in Handles \cup {Derived(g) : g \in Handles}, what \in TextForms :
          Read(h, what)

SpecUrl == InitUrl /\ [][NextUrl]_vars

-----------------------------------------------------------------------------
(* SshPath: operations on the remote file system *)

\* Number of SshPath operations that may write to the remote side.
MaxWrites == 2

\* Number of SFTP sub-sessions that may be opened.
MaxSftp == 2

\* The remote file system: [dirs, files]. A location is the sequence of the
\* components of a path, as the server resolves it.
RemoteFs == [dirs |-> rdirs, files |-> rfiles]
Loc(t) == PurePosixPath(t).parts
ParentLoc(l) == SubSeq(l, 1, Len(l) - 1)
Present(l, fs) == l \in fs.dirs \/ l \in DOMAIN fs.files

\* An SFTP request, as recorded in rcalls.
Req(call, t) == [call |-> call, path |-> t]

\* sftp.stat(t). The server may refuse it (fault "PermissionError") or
\* answer without the permission bits (fault "nomode"). A missing path gives
\* FileNotFoundError. Result: [exc, mode].
sftp_stat(t, fs, fault) ==
    LET at(l) ==
            IF fault = "PermissionError" THEN [exc |-> "PermissionError", mode |-> "None"]
            ELSE IF ~Present(l, fs) THEN [exc |-> "FileNotFoundError", mode |-> "None"]
            ELSE [exc |-> "none",
                  mode |-> IF fault = "nomode" THEN "None"
                           ELSE IF l \in fs.dirs THEN "dir" ELSE "file"]
    IN at(Loc(t))

\* sftp.mkdir(t). Result: [exc, fs].
sftp_mkdir(t, fs) ==
    LET at(l) ==
            IF Present(l, fs) THEN [exc |-> "OSError", fs |-> fs]
            ELSE IF ParentLoc(l) \notin fs.dirs
            THEN [exc |-> "FileNotFoundError", fs |-> fs]
            ELSE [exc |-> "none", fs |-> [fs EXCEPT !.dirs = @ \cup {l}]]
    IN at(Loc(t))

\* sftp.remove(t). Result: [exc, fs].
sftp_remove(t, fs) ==
    LET at(l) ==
            IF l \in DOMAIN fs.files
            THEN [exc |-> "none",
                  fs |-> [fs EXCEPT !.files = [k \in DOMAIN @ \ {l} |-> @[k]]]]
            ELSE IF l \in fs.dirs THEN [exc |-> "OSError", fs |-> fs]
            ELSE [exc |-> "FileNotFoundError", fs |-> fs]
    IN at(Loc(t))

\* sftp.open(t, "wb") followed by f.write(data). Result: [exc, fs].
sftp_write(t, data, fs) ==
    LET at(l) ==
            IF l \in fs.dirs THEN [exc |-> "OSError", fs |-> fs]
            ELSE IF ParentLoc(l) \notin fs.dirs
            THEN [exc |-> "FileNotFoundError", fs |-> fs]
            ELSE [exc |-> "none", fs |-> [fs EXCEPT !.files = (l :> data) @@ @]]
    IN at(Loc(t))

\* sftp.open(t, "rb") followed by f.read(). Result: [exc, data].
sftp_read(t, fs) ==
    LET at(l) ==
            IF l \in DOMAIN fs.files THEN [exc |-> "none", data |-> fs.files[l]]
            ELSE IF l \in fs.dirs THEN [exc |-> "OSError", data |-> "None"]
            ELSE [exc |-> "FileNotFoundError", data |-> "None"]
    IN at(Loc(t))

\* Variant of caught_not_found: every failure of stat is taken for a
\* missing path.
caught_any_error(exc) == exc # "none"

\* except FileNotFoundError: in exists and is_dir.
caught_not_found(exc) == exc = "FileNotFoundError"

\* The results of the operations: [exc, out, fs, calls, stat].
NoStat == [exc |-> "none", mode |-> "None"]

\* SshPath.exists
SshPath_exists(p, fs, fault) ==
    LET answer(st) ==
            [exc |-> IF st.exc = "none" \/ caught_not_found(st.exc) THEN "none" ELSE st.exc,
             out |-> IF st.exc = "none" THEN "True"
                     ELSE IF caught_not_found(st.exc) THEN "False" ELSE "None",
             fs |-> fs, calls |-> <<Req("stat", p.path)>>, stat |-> st]
    IN answer(sftp_stat(p.path, fs, fault))

\* SshPath.is_dir
SshPath_is_dir(p, fs, fault) ==
    LET answer(st) ==
            [exc |-> IF st.exc = "none" \/ caught_not_found(st.exc) THEN "none" ELSE st.exc,
             out |-> IF st.exc = "none"
                     THEN (IF st.mode # "None"
                           THEN (IF st.mode = "dir" THEN "True" ELSE "False")
                           ELSE "False")
                     ELSE IF caught_not_found(st.exc) THEN "False" ELSE "None",
             fs |-> fs, calls |-> <<Req("stat", p.path)>>, stat |-> st]
    IN answer(sftp_stat(p.path, fs, fault))

\* The loop of mkdir(parents=True): for each non-empty part, stat the path
\* so far and mkdir it when stat raises FileNotFoundError.
\* Result: [exc, fs, calls].
RECURSIVE mkdir_parts(_, _, _, _)
mkdir_parts(parts, current_path, fs, calls) ==
    LET made(cur, m) ==
            IF m.exc # "none"
            THEN [exc |-> m.exc, fs |-> fs,
                  calls |-> calls \o <<Req("stat", cur), Req("mkdir", cur)>>]
            ELSE mkdir_parts(Tail(parts), cur, m.fs,
                             calls \o <<Req("stat", cur), Req("mkdir", cur)>>)
        step(cur, st) ==
            IF st.exc = "none"
            THEN mkdir_parts(Tail(parts), cur, fs, Append(calls, Req("stat", cur)))
            ELSE IF st.exc # "FileNotFoundError"
            THEN [exc |-> st.exc, fs |-> fs, calls |-> Append(calls, Req("stat", cur))]
            ELSE made(cur, sftp_mkdir(cur, fs))
        part(cur) == step(cur, sftp_stat(cur, fs, "none"))
    IN IF parts = <<>> THEN [exc |-> "none", fs |-> fs, calls |-> calls]
       ELSE IF Head(parts) = <<>> THEN mkdir_parts(Tail(parts), current_path, fs, calls)
       ELSE part(current_path \o <<"/">> \o Head(parts))

\* Variant of SshPath_mkdir: parents is not looked at, one mkdir request is
\* sent for the path.
SshPath_mkdir_without_parents(p, parents, fs) ==
    LET one(m) == [exc |-> m.exc, out |-> "None", fs |-> m.fs,
                   calls |-> <<Req("mkdir", p.path)>>, stat |-> NoStat]
    IN one(sftp_mkdir(p.path, fs))

\* SshPath.mkdir(parents, exist_ok)
SshPath_mkdir(p, parents, fs) ==
    LET one(m) == [exc |-> m.exc, out |-> "None", fs |-> m.fs,
                   calls |-> <<Req("mkdir", p.path)>>, stat |-> NoStat]
        all(m) == [exc |-> m.exc, out |-> "None", fs |-> m.fs, calls |-> m.calls,
                   stat |-> NoStat]
    IN IF ~parents THEN one(sftp_mkdir(p.path, fs))
       ELSE all(mkdir_parts(split(strip(p.path, "/"), "/"), <<>>, fs, <<>>))

\* SshPath.read_bytes
SshPath_read_bytes(p, fs) ==
    LET got(r) == [exc |-> r.exc, out |-> r.data, fs |-> fs,
                   calls |-> <<Req("open rb", p.path)>>, stat |-> NoStat]
    IN got(sftp_read(p.path, fs))

\* SshPath.write_bytes: self.mkdir(parents=True, exist_ok=True), then the
\* file is opened for binary writing and the data written.
SshPath_write_bytes(p, data, fs) ==
    LET written(m, w) ==
            [exc |-> w.exc, out |-> "None", fs |-> w.fs,
             calls |-> Append(m.calls, Req("open wb", p.path)), stat |-> NoStat]
        made(m) == IF m.exc # "none" THEN m
                   ELSE written(m, sftp_write(p.path, data, m.fs))
    IN made(SshPath_mkdir(p, TRUE, fs))

\* Variant of not_found_reraised: missing_ok is not looked at.
not_found_reraised_always(missing_ok) == TRUE

\* if not missing_ok: raise
not_found_reraised(missing_ok) == ~missing_ok

\* SshPath.unlink(missing_ok)
SshPath_unlink(p, missing_ok, fs) ==
    LET removed(r) ==
            [exc |-> IF r.exc = "FileNotFoundError" /\ ~not_found_reraised(missing_ok)
                     THEN "none" ELSE r.exc,
             out |-> "None", fs |-> r.fs, calls |-> <<Req("remove", p.path)>>,
             stat |-> NoStat]
    IN removed(sftp_remove(p.path, fs))

\* URL of the file the program works on, and the states the remote side may
\* be in when it starts.
RemoteUrls == {Ssh \o <<"user", "@", "host", "/", "test_dir", "/", "file.bin">>}
RemoteDirs == {{<<>>}, {<<>>, <<<<"test_dir">>>>}}
StatFaults == {"none", "PermissionError", "nomode"}

\* p1 has been constructed from the URL; no session exists yet.
InitRemote ==
    /\ TransferIdle
    /\ cache = <<>>
    /\ clients = <<>>
    /\ registry = {}
    /\ evicted = {}
    /\ nfill = 0
    /\ nother = 0
    /\ ndead = 0
    /\ sftps = <<>>
    /\ last = NoOp
    /\ exited = FALSE
    /\ given \in [url : RemoteUrls, key : {"None"}]
    /\ paths = [h \in {"p1"} |-> SshPath_init(given.url, "None", given.key).p]
    /\ rdirs \in RemoteDirs
    /\ rfiles \in {<<>>} \cup {(Loc(paths["p1"].path) :> b) : b \in
                                 {c \in {"x"} : ParentLoc(Loc(paths["p1"].path)) \in rdirs}}
    /\ rcalls = <<>>
    /\ nwrites = 0
    /\ thr = <<>>

\* Instance p holds a session and a sub-session that are both live, the
\* clients being cls and the sub-sessions sfs.
LiveIn(p, cls, sfs) ==
    /\ p.client # 0
    /\ cls[p.client].active
    /\ p.sftp # 0
    /\ ~sfs[p.sftp].closed
Live(p) == LiveIn(p, clients, sftps)

\* An operation on handle h that goes through self.sftp and then does what
\* r says: r is the operation's result on the remote side as it is.
Operate(h, fail, op, arg, writes, r) ==
    /\ ~exited
    /\ h \in DOMAIN paths
    /\ ~(fail /\ ~(needs_sftp(paths[h].sftp, sftps)
                     /\ needs_client(paths[h].client, clients)))
    /\ ~(writes /\ nwrites >= MaxWrites)
    /\ ~(needs_sftp(paths[h].sftp, sftps) /\ Len(sftps) >= MaxSftp)
    /\ LET done(s, ok, res) ==
               /\ paths' = [paths EXCEPT ![h] = s.p]
               /\ cache' = s.st.cache
               /\ clients' = s.st.clients
               /\ evicted' = s.st.evicted
               /\ registry' = WeakSet(s.st.registry, s.st.cache, paths')
               /\ sftps' = s.st.sftps
               /\ rdirs' = IF ok THEN res.fs.dirs ELSE rdirs
               /\ rfiles' = IF ok THEN res.fs.files ELSE rfiles
               /\ rcalls' = IF ok THEN res.calls ELSE <<>>
               /\ last' = [op |-> op, h |-> h, arg |-> arg,
                           reached |-> ok,
                           exc |-> IF ok THEN res.exc ELSE s.exc,
                           out |-> IF ok THEN res.out ELSE "None",
                           stat |-> res.stat,
                           was |-> paths[h],
                           live |-> Live(paths[h]),
                           connects |-> Len(s.st.clients) - Len(clients),
                           asked |-> s.asked, attempts |-> s.attempts,
                           opens |-> Len(s.st.sftps) - Len(sftps),
                           fs |-> RemoteFs]
           session(s) == done(s, s.exc = "none", r)
       IN session(sftp_property(paths[h], fail, Sessions))
    /\ nwrites' = IF writes THEN nwrites + 1 ELSE nwrites
    /\ UNCHANGED <<nfill, nother, ndead, exited, given, tvars, cvars>>

Exists(h, fail, fault) ==
    Operate(h, fail, "exists", fault, FALSE, SshPath_exists(paths[h], RemoteFs, fault))

IsDirectory(h, fail, fault) ==
    Operate(h, fail, "is_dir", fault, FALSE, SshPath_is_dir(paths[h], RemoteFs, fault))

Mkdir(h, fail, parents) ==
    Operate(h, fail, "mkdir", parents, TRUE, SshPath_mkdir(paths[h], parents, RemoteFs))

ReadBytes(h, fail) ==
    Operate(h, fail, "read_bytes", "None", FALSE, SshPath_read_bytes(paths[h], RemoteFs))

WriteBytes(h, fail, data) ==
    Operate(h, fail, "write_bytes", data, TRUE,
            SshPath_write_bytes(paths[h], data, RemoteFs))

Unlink(h, fail, missing_ok) ==
    Operate(h, fail, "unlink", missing_ok, TRUE,
            SshPath_unlink(paths[h], missing_ok, RemoteFs))

\* File operations on p1.
NextRemote ==
    \/ \E fail \in BOOLEAN, fault \in StatFaults : Exists("p1", fail, fault)
    \/ \E fail \in BOOLEAN, fault \in StatFaults : IsDirectory("p1", fail, fault)
    \/ \E fail \in BOOLEAN, parents \in BOOLEAN : Mkdir("p1", fail, parents)
    \/ \E fail \in BOOLEAN : ReadBytes("p1", fail)
    \/ \E fail \in BOOLEAN, data \in Bytes : WriteBytes("p1", fail, data)
    \/ \E fail \in BOOLEAN, missing_ok \in BOOLEAN : Unlink("p1", fail, missing_ok)

SpecRemote == InitRemote /\ [][NextRemote]_vars

\* The handles of SpecSftp: p1 and q1, what parent or join gave from p1.
SftpHandles == {"p1", Derived("p1")}
SftpSegments == {<<"sub", "/", "y">>}

\* Instances are derived and read, and they stat and read the remote side,
\* while a transport may be lost.
NextSftp ==
    \/ ParentOf("p1")
    \/ \E other \in SftpSegments : Join("p1", other)
    \/ \E h \in SftpHandles, what \in Reads : Read(h, what)
    \/ \E h \in SftpHandles, fail \in BOOLEAN : Exists(h, fail, "none")
    \/ \E h \in SftpHandles, fail \in BOOLEAN : ReadBytes(h, fail)
    \/ \E c \in 1..Len(clients) : TransportDies(c)

SpecSftp == InitRemote /\ [][NextSftp]_vars

-----------------------------------------------------------------------------
(* SshPath.mkdir(parents=True) run by two actors at once *)

\* The two actors and the directory each one makes: both lie under /data.
Actors == {"a1", "a2"}
ActorUrl(a) ==
    Ssh \o <<"user", "@", "host", "/", "data", "/">> \o (IF a = "a1" THEN <<"in">> ELSE <<"out">>)
        \o <<"/", "day">>

\* for part in parts: if not part: continue
RECURSIVE skip_empty(_)
skip_empty(parts) ==
    IF parts # <<>> /\ Head(parts) = <<>> THEN skip_empty(Tail(parts)) ELSE parts

\* Each actor holds its SshPath; /data exists or not; nobody has started.
InitMkdir ==
    /\ TransferIdle
    /\ cache = <<>>
    /\ clients = <<>>
    /\ registry = {}
    /\ evicted = {}
    /\ nfill = 0
    /\ nother = 0
    /\ ndead = 0
    /\ sftps = <<>>
    /\ last = NoOp
    /\ exited = FALSE
    /\ given = [url |-> <<>>, key |-> "None"]
    /\ paths = [a \in Actors |-> SshPath_init(ActorUrl(a), "None", "None").p]
    /\ rdirs \in {{<<>>}, {<<>>, <<<<"data">>>>}}
    /\ rfiles = <<>>
    /\ rcalls = <<>>
    /\ nwrites = 0
    /\ thr = [a \in Actors |->
                [pc |-> "idle", parts |-> <<>>, current_path |-> <<>>, exc |-> "none"]]

\* What a step of an actor inside mkdir leaves alone.
MkdirFrame == UNCHANGED <<tvars, nfill, nother, ndead, last, exited, given, rfiles, nwrites>>

\* The session state after actor a has gone through self.sftp.
ThroughSftp(a, s) ==
    /\ paths' = [paths EXCEPT ![a] = s.p]
    /\ cache' = s.st.cache
    /\ clients' = s.st.clients
    /\ evicted' = s.st.evicted
    /\ registry' = WeakSet(s.st.registry, s.st.cache, paths')
    /\ sftps' = s.st.sftps

\* The loop of actor a goes on to the next part, or mkdir returns.
NextPart(a, cur, exc) ==
    LET rest == skip_empty(Tail(thr[a].parts))
    IN thr' = [thr EXCEPT ![a] =
                 [pc |-> IF exc # "none" \/ rest = <<>> THEN "done" ELSE "stat",
                  parts |-> rest, current_path |-> cur, exc |-> exc]]

\* Actor a calls mkdir(parents=True): the path is split into its parts.
MkdirStart(a) ==
    /\ thr[a].pc = "idle"
    /\ LET split_up(parts) ==
               thr' = [thr EXCEPT ![a] =
                         [pc |-> IF parts = <<>> THEN "done" ELSE "stat",
                          parts |-> parts, current_path |-> <<>>, exc |-> "none"]]
       IN split_up(skip_empty(split(strip(paths[a].path, "/"), "/")))
    /\ UNCHANGED <<cache, clients, registry, paths, evicted, sftps, rdirs, rcalls>>
    /\ MkdirFrame

\* self.sftp.stat(current_path) for the next part, in the try block.
MkdirStat(a) ==
    /\ thr[a].pc = "stat"
    /\ LET answered(cur, s, st) ==
               /\ ThroughSftp(a, s)
               /\ rcalls' = IF s.exc = "none" THEN Append(rcalls, Req("stat", cur))
                            ELSE rcalls
               /\ IF s.exc # "none" THEN NextPart(a, cur, s.exc)
                  ELSE IF st.exc = "none" THEN NextPart(a, cur, "none")
                  ELSE IF st.exc = "FileNotFoundError"
                  THEN thr' = [thr EXCEPT ![a].pc = "mkdir", ![a].current_path = cur]
                  ELSE NextPart(a, cur, st.exc)
           asked(cur) == answered(cur, sftp_property(paths[a], FALSE, Sessions),
                                  sftp_stat(cur, RemoteFs, "none"))
       IN asked(thr[a].current_path \o <<"/">> \o Head(thr[a].parts))
    /\ UNCHANGED rdirs
    /\ MkdirFrame

\* except FileNotFoundError: self.sftp.mkdir(current_path)
MkdirMake(a) ==
    /\ thr[a].pc = "mkdir"
    /\ LET answered(cur, s, m) ==
               /\ ThroughSftp(a, s)
               /\ rcalls' = IF s.exc = "none" THEN Append(rcalls, Req("mkdir", cur))
                            ELSE rcalls
               /\ rdirs' = IF s.exc = "none" THEN m.fs.dirs ELSE rdirs
               /\ NextPart(a, cur, IF s.exc # "none" THEN s.exc ELSE m.exc)
           asked(cur) == answered(cur, sftp_property(paths[a], FALSE, Sessions),
                                  sftp_mkdir(cur, RemoteFs))
       IN asked(thr[a].current_path)
    /\ MkdirFrame

NextMkdir ==
    \/ \E a \in Actors : MkdirStart(a)
    \/ \E a \in Actors : MkdirStat(a)
    \/ \E a \in Actors : MkdirMake(a)

SpecMkdir == InitMkdir /\ [][NextMkdir]_vars

-----------------------------------------------------------------------------
(* get_path_from_str and File *)

\* str.startswith
startswith(t, prefix) == Len(t) >= Len(prefix) /\ SubSeq(t, 1, Len(prefix)) = prefix

\* _CLOUD_PATH_REGEX = re.compile(r"^(s3://|gs://|az://)"), and the class
\* CloudPath(...) gives for each prefix.
CloudPrefixes == {<<"s", "3", ":", "/", "/">>, <<"gs", ":", "/", "/">>,
                  <<"az", ":", "/", "/">>}
CloudClass(t) ==
    IF t[1] = "s" THEN "S3Path" ELSE IF t[1] = "gs" THEN "GSPath" ELSE "AzureBlobPath"

\* Variant of get_path_from_str: no branch for ssh://.
get_path_from_str_cloud_or_local(t) ==
    IF \E pre \in CloudPrefixes : startswith(t, pre)
    THEN [exc |-> "none", kind |-> CloudClass(t), text |-> t]
    ELSE [exc |-> "none", kind |-> "PosixPath", text |-> posix_str(PurePosixPath(t))]

\* get_path_from_str(path). Result: [exc, kind, text], kind the class of the
\* handle and text its str().
get_path_from_str(t) ==
    LET ssh(r) == IF r.exc # "none" THEN [exc |-> r.exc, kind |-> "None", text |-> <<>>]
                  ELSE [exc |-> "none", kind |-> "SshPath", text |-> SshPath_str(r.p)]
    IN IF \E pre \in CloudPrefixes : startswith(t, pre)
       THEN [exc |-> "none", kind |-> CloudClass(t), text |-> t]
       ELSE IF startswith(t, Ssh) THEN ssh(SshPath_init(t, "None", "None"))
       ELSE [exc |-> "none", kind |-> "PosixPath", text |-> posix_str(PurePosixPath(t))]

\* Strings a program may hand to get_path_from_str.
PathStrings ==
    {<<"s", "3", ":", "/", "/", "my-bucket", "/", "file.json">>,
     <<"gs", ":", "/", "/", "my-gcs-bucket", "/", "info.txt">>,
     <<"az", ":", "/", "/", "my-container", "/", "blob.zip">>,
     <<"S", "3", ":", "/", "/", "my-bucket", "/", "file.json">>,
     <<"s", "3", ":", "/", "my-bucket">>,
     Ssh \o <<"user", "@", "host", "/", "p">>,
     Ssh \o <<"/", "p">>,
     Ssh,
     Ssh \o <<"user", "@", ":", "2", "2", "/", "p">>,
     Ssh \o <<"host", ":", "abc", "/", "p">>,
     <<"SSH", ":", "/", "/", "host", "/", "p">>,
     <<"ssh", ":", "/", "host", "/", "p">>,
     <<>>,
     <<"/", "tmp", "/", "test_file.txt">>,
     <<"data", "/", "file.csv">>,
     <<".">>}

\* What a File may hold or store: bytes, the empty bytes included.
FileContents == Bytes \cup {""}

\* Variant of has_cached: the cached content is never used.
has_cached_never(c) == FALSE

\* self.content is not None
has_cached(c) == c # "None"

\* Path.read_bytes() on a local path. Result: [exc, data].
path_read_bytes(loc, fl) ==
    IF IsFile(fl, loc) THEN [exc |-> "none", data |-> fl[loc]]
    ELSE [exc |-> "FileNotFoundError", data |-> "None"]

\* Path.write_bytes(data) on a local path. Result: [exc, files].
path_write_bytes(loc, data, ds, fl) ==
    IF IsDir(ds, loc) THEN [exc |-> "IsADirectoryError", files |-> fl]
    ELSE IF ~IsDir(ds, Parent(loc)) THEN [exc |-> "FileNotFoundError", files |-> fl]
    ELSE [exc |-> "none", files |-> [fl EXCEPT ![loc] = data]]

\* File.read(use_cache) of a File whose path is the local path loc and whose
\* content is c. Result: [exc, out, content, read_path].
File_read(loc, c, use_cache, fail, fl) ==
    LET got(r) == [exc |-> r.exc, out |-> r.data,
                   content |-> IF r.exc = "none" THEN r.data ELSE c,
                   read_path |-> TRUE]
    IN IF use_cache /\ has_cached(c)
       THEN [exc |-> "none", out |-> c, content |-> c, read_path |-> FALSE]
       ELSE got(IF fail THEN [exc |-> "PermissionError", data |-> "None"]
                ELSE path_read_bytes(loc, fl))

\* File.save(content, clear_content). Result: [exc, content, dirs, files].
File_save(loc, c, given_content, clear_content, fail, ds, fl) ==
    LET saved(now, m, w) ==
            [exc |-> w.exc,
             content |-> IF w.exc = "none" /\ clear_content THEN "None" ELSE now,
             dirs |-> m.dirs, files |-> w.files]
        made(now, m) ==
            IF m.exc # "none"
            THEN [exc |-> m.exc, content |-> now, dirs |-> m.dirs, files |-> fl]
            ELSE saved(now, m, IF fail THEN [exc |-> "PermissionError", files |-> fl]
                               ELSE path_write_bytes(loc, now, m.dirs, fl))
        set(now) ==
            IF now = "None"
            THEN [exc |-> "ValueError", content |-> now, dirs |-> ds, files |-> fl]
            ELSE made(now, mkdir(Parent(loc), ds, fl))
    IN set(IF given_content # "None" THEN given_content ELSE c)

\* A File has been made for a local path, with or without initial content;
\* the file may or may not exist at a.txt.
InitFile ==
    /\ SshIdle
    /\ pc = "idle"
    /\ source \in {[kind |-> "PosixPath", loc |-> l] : l \in LocalSourceLocs}
    /\ target = NoPath
    /\ delete_source = FALSE
    /\ content \in {"None"} \cup FileContents
    /\ trace = <<>>
    /\ thrown = "none"
    /\ raised_in = "none"
    /\ outcome = "pending"
    /\ dirs = {<<>>}
    /\ files \in {f \in [LocalFileLocs -> FileContents \cup {Absent}] :
                    \A l \in LocalFileLocs : l # <<"a.txt">> => f[l] = Absent}
    /\ cloud = [c \in CloudPaths |-> Absent]
    /\ before = [files |-> files, cloud |-> cloud, dirs |-> dirs, content |-> content]
    /\ ncalls = 0

\* get_path_from_str(t) is called.
Resolve(t) ==
    /\ last' = [op |-> "resolve", text |-> t, res |-> get_path_from_str(t)]
    /\ UNCHANGED <<tvars, cache, clients, registry, paths, evicted, nfill, nother,
                   ndead, sftps, exited, rvars, cvars>>

\* file.read(use_cache)
FileRead(use_cache, fail) ==
    /\ ~(fail /\ use_cache /\ has_cached(content))
    /\ LET done(r) ==
               /\ content' = r.content
               /\ last' = [op |-> "read", use_cache |-> use_cache, exc |-> r.exc,
                           out |-> r.out, read_path |-> r.read_path]
       IN done(File_read(source.loc, content, use_cache, fail, files))
    /\ UNCHANGED <<pc, source, target, delete_source, trace, thrown, raised_in, outcome,
                   before, dirs, files, cloud, ncalls>>
    /\ UNCHANGED <<cache, clients, registry, paths, evicted, nfill, nother, ndead,
                   sftps, exited, rvars, cvars>>

\* file.save(content, clear_content)
FileSave(given_content, clear_content, fail) ==
    /\ LET done(r) ==
               /\ content' = r.content
               /\ dirs' = r.dirs
               /\ files' = r.files
               /\ last' = [op |-> "save", exc |-> r.exc]
       IN done(File_save(source.loc, content, given_content, clear_content, fail,
                         dirs, files))
    /\ UNCHANGED <<pc, source, target, delete_source, trace, thrown, raised_in, outcome,
                   before, cloud, ncalls>>
    /\ UNCHANGED <<cache, clients, registry, paths, evicted, nfill, nother, ndead,
                   sftps, exited, rvars, cvars>>

\* file.clear_content()
FileClear ==
    /\ content' = "None"
    /\ last' = [op |-> "clear_content"]
    /\ UNCHANGED <<pc, source, target, delete_source, trace, thrown, raised_in, outcome,
                   before, dirs, files, cloud, ncalls>>
    /\ UNCHANGED <<cache, clients, registry, paths, evicted, nfill, nother, ndead,
                   sftps, exited, rvars, cvars>>

\* Another program writes the file at the File's path.
OtherWrite(data) ==
    /\ IsDir(dirs, Parent(source.loc))
    /\ files' = [files EXCEPT ![source.loc] = data]
    /\ last' = [op |-> "other"]
    /\ UNCHANGED <<pc, source, target, delete_source, content, trace, thrown, raised_in,
                   outcome, before, dirs, cloud, ncalls>>
    /\ UNCHANGED <<cache, clients, registry, paths, evicted, nfill, nother, ndead,
                   sftps, exited, rvars, cvars>>

NextFile ==
    \/ \E t \in PathStrings : Resolve(t)
    \/ \E use_cache \in BOOLEAN, fail \in BOOLEAN : FileRead(use_cache, fail)
    \/ \E c \in {"None"} \cup FileContents, clear \in BOOLEAN, fail \in BOOLEAN :
          FileSave(c, clear, fail)
    \/ FileClear
    \/ \E data \in FileContents : OtherWrite(data)

SpecFile == InitFile /\ [][NextFile]_vars

-----------------------------------------------------------------------------
(* The transfer strategies that read or write an SshPath *)

\* The SshPath instances the strategies work on: the source p1 and the
\* target p2, on the same host.
StrategyUrl(h) ==
    Ssh \o <<"user", "@", "host", "/">>
        \o (IF h = "p1" THEN <<"test_dir", "/", "file.bin">> ELSE <<"out", "/", "copy.bin">>)
StrategySsh(h) == [kind |-> "SshPath", loc |-> <<h>>]
HandleOf(p) == p.loc[1]
StrategyLocal(l) == [kind |-> "PosixPath", loc |-> l]
StrategySources == {StrategyLocal(<<"a.txt">>), StrategySsh("p1")}
                      \cup {c \in CloudPaths : c.kind = "S3Path"}
StrategyTargets == {StrategyLocal(<<"out", "a.txt">>), StrategySsh("p2")}
                      \cup {c \in CloudPaths : c.kind = "GSPath"}

\* Everything a strategy can read or change.
World == [st |-> Sessions, paths |-> paths, dirs |-> dirs, files |-> files,
          cloud |-> cloud, fs |-> RemoteFs]

\* A call made on one side of a transfer.
SideCall(side, call, t) == [side |-> side, call |-> call, path |-> t]
OnSide(side, calls) == [i \in 1..Len(calls) |-> SideCall(side, calls[i].call, calls[i].path)]

\* CloudPath.read_bytes(). Result: [exc, data].
cloud_read_bytes(c, cl) ==
    IF cl[c] = Absent THEN [exc |-> "CloudPathException", data |-> "None"]
    ELSE [exc |-> "none", data |-> cl[c]]

\* CloudPath.write_bytes(data). Result: [exc, cloud].
cloud_write_bytes(c, data, cl) == [exc |-> "none", cloud |-> [cl EXCEPT ![c] = data]]

\* source_path.read_bytes() on a path of any family, in world w; fail says
\* that a connection attempted by an SshPath fails.
\* Result: [exc, data, calls, w].
read_bytes(p, fail, w) ==
    LET plain(r) == [exc |-> r.exc, data |-> r.data,
                     calls |-> <<SideCall("source", "read_bytes", p.loc)>>, w |-> w]
        remote(s, r) ==
            [exc |-> r.exc, data |-> r.out, calls |-> OnSide("source", r.calls),
             w |-> [w EXCEPT !.st = s.st, !.paths[HandleOf(p)] = s.p]]
        session(s) ==
            IF s.exc # "none"
            THEN [exc |-> s.exc, data |-> "None", calls |-> <<>>,
                  w |-> [w EXCEPT !.st = s.st, !.paths[HandleOf(p)] = s.p]]
            ELSE remote(s, SshPath_read_bytes(s.p, w.fs))
    IN IF IsPath(p) THEN plain(path_read_bytes(p.loc, w.files))
       ELSE IF IsCloudPath(p) THEN plain(cloud_read_bytes(p, w.cloud))
       ELSE session(sftp_property(w.paths[HandleOf(p)], fail, w.st))

\* target_path.write_bytes(data) on a path of any family, in world w.
\* Result: [exc, calls, w].
write_bytes(p, data, fail, w) ==
    LET local(r) == [exc |-> r.exc,
                     calls |-> <<SideCall("target", "write_bytes", p.loc)>>,
                     w |-> [w EXCEPT !.files = r.files]]
        object(r) == [exc |-> r.exc,
                      calls |-> <<SideCall("target", "write_bytes", p.loc)>>,
                      w |-> [w EXCEPT !.cloud = r.cloud]]
        remote(s, r) ==
            [exc |-> r.exc, calls |-> OnSide("target", r.calls),
             w |-> [w EXCEPT !.st = s.st, !.paths[HandleOf(p)] = s.p, !.fs = r.fs]]
        session(s) ==
            IF s.exc # "none"
            THEN [exc |-> s.exc, calls |-> <<>>,
                  w |-> [w EXCEPT !.st = s.st, !.paths[HandleOf(p)] = s.p]]
            ELSE remote(s, SshPath_write_bytes(s.p, data, w.fs))
    IN IF IsPath(p) THEN local(path_write_bytes(p.loc, data, w.dirs, w.files))
       ELSE IF IsCloudPath(p) THEN object(cloud_write_bytes(p, data, w.cloud))
       ELSE session(sftp_property(w.paths[HandleOf(p)], fail, w.st))

\* The five strategies, and the families each one asserts of its source
\* and its target.
SshStrategies == {"local_to_ssh", "ssh_to_local", "ssh_to_cloud", "cloud_to_ssh",
                  "ssh_to_ssh"}
asserted(name, sp, tp) == StrategyFor(Family(sp), Family(tp)) = name

\* Variant of write_called: write_bytes is called whatever the read gave.
write_called_always(exc) == TRUE

\* target_path.write_bytes(source_path.read_bytes()): the argument is
\* evaluated first, and the call is made only when that raised nothing.
write_called(exc) == exc = "none"

\* XToYStrategy.transfer(source_path, target_path) in world w.
\* Result: [exc, read, wrote, calls, w], read being the exception of the read.
strategy_transfer(name, sp, tp, rfail, wfail, w) ==
    LET written(r, x) == [exc |-> x.exc, read |-> r.exc, wrote |-> TRUE,
                          calls |-> r.calls \o x.calls, w |-> x.w]
        got(r) == IF write_called(r.exc)
                  THEN written(r, write_bytes(tp, r.data, wfail, r.w))
                  ELSE [exc |-> r.exc, read |-> r.exc, wrote |-> FALSE,
                        calls |-> r.calls, w |-> r.w]
    IN IF ~asserted(name, sp, tp)
       THEN [exc |-> "AssertionError", read |-> "none", wrote |-> FALSE,
             calls |-> <<>>, w |-> w]
       ELSE got(read_bytes(sp, rfail, w))

\* The local file, the cloud object and the remote files may exist or not;
\* p1 and p2 have been constructed and hold no session.
InitStrategy ==
    /\ pc = "idle"
    /\ source = NoPath
    /\ target = NoPath
    /\ delete_source = FALSE
    /\ content = "None"
    /\ trace = <<>>
    /\ thrown = "none"
    /\ raised_in = "none"
    /\ outcome = "pending"
    /\ dirs \in {{<<>>}, {<<>>, <<"out">>}}
    /\ files \in {f \in [LocalFileLocs -> {"x", Absent}] :
                    \A l \in LocalFileLocs : l # <<"a.txt">> => f[l] = Absent}
    /\ cloud \in {c \in [CloudPaths -> {"y", Absent}] :
                    \A k \in CloudPaths : k.kind # "S3Path" => c[k] = Absent}
    /\ before = [files |-> files, cloud |-> cloud, dirs |-> dirs, content |-> content]
    /\ ncalls = 0
    /\ cache = <<>>
    /\ clients = <<>>
    /\ registry = {}
    /\ evicted = {}
    /\ nfill = 0
    /\ nother = 0
    /\ ndead = 0
    /\ sftps = <<>>
    /\ last = NoOp
    /\ exited = FALSE
    /\ given = [url |-> <<>>, key |-> "None"]
    /\ paths = [h \in Handles |-> SshPath_init(StrategyUrl(h), "None", "None").p]
    /\ rdirs \in {{<<>>}, {<<>>, <<<<"test_dir">>>>, <<<<"out">>>>}}
    /\ rfiles \in {[l \in {Loc(paths[h].path) : h \in S} |-> "x"] :
                     S \in (IF Cardinality(rdirs) > 1 THEN SUBSET Handles ELSE {{}})}
    /\ rcalls = <<>>
    /\ nwrites = 0
    /\ thr = <<>>

\* strategy.transfer(sp, tp) is called and runs to its end.
Transfer(name, sp, tp, rfail, wfail) ==
    /\ LET done(r) ==
               /\ cache' = r.w.st.cache
               /\ clients' = r.w.st.clients
               /\ evicted' = r.w.st.evicted
               /\ sftps' = r.w.st.sftps
               /\ paths' = r.w.paths
               /\ registry' = WeakSet(r.w.st.registry, r.w.st.cache, r.w.paths)
               /\ files' = r.w.files
               /\ cloud' = r.w.cloud
               /\ rdirs' = r.w.fs.dirs
               /\ rfiles' = r.w.fs.files
               /\ last' = [op |-> "transfer", name |-> name, source |-> sp, target |-> tp,
                           exc |-> r.exc, read |-> r.read, wrote |-> r.wrote,
                           calls |-> r.calls]
       IN done(strategy_transfer(name, sp, tp, rfail, wfail, World))
    /\ UNCHANGED <<pc, source, target, delete_source, content, trace, thrown, raised_in,
                   outcome, before, dirs, ncalls>>
    /\ UNCHANGED <<nfill, nother, ndead, exited, given, rcalls, nwrites, cvars>>

LocalToSsh(sp, tp, wfail) == Transfer("local_to_ssh", sp, tp, FALSE, wfail)
SshToLocal(sp, tp, rfail) == Transfer("ssh_to_local", sp, tp, rfail, FALSE)
SshToCloud(sp, tp, rfail) == Transfer("ssh_to_cloud", sp, tp, rfail, FALSE)
CloudToSsh(sp, tp, wfail) == Transfer("cloud_to_ssh", sp, tp, FALSE, wfail)
SshToSsh(sp, tp, rfail, wfail) == Transfer("ssh_to_ssh", sp, tp, rfail, wfail)

NextStrategy ==
    \/ \E sp \in StrategySources, tp \in StrategyTargets, f \in BOOLEAN :
          IsPath(sp) /\ IsSshPath(tp) /\ LocalToSsh(sp, tp, f)
    \/ \E sp \in StrategySources, tp \in StrategyTargets, f \in BOOLEAN :
          IsSshPath(sp) /\ IsPath(tp) /\ SshToLocal(sp, tp, f)
    \/ \E sp \in StrategySources, tp \in StrategyTargets, f \in BOOLEAN :
          IsSshPath(sp) /\ IsCloudPath(tp) /\ SshToCloud(sp, tp, f)
    \/ \E sp \in StrategySources, tp \in StrategyTargets, f \in BOOLEAN :
          IsCloudPath(sp) /\ IsSshPath(tp) /\ CloudToSsh(sp, tp, f)
    \/ \E sp \in StrategySources, tp \in StrategyTargets, rf \in BOOLEAN, wf \in BOOLEAN :
          IsSshPath(sp) /\ IsSshPath(tp) /\ SshToSsh(sp, tp, rf, wf)

SpecStrategy == InitStrategy /\ [][NextStrategy]_vars

-----------------------------------------------------------------------------
(* FileTransferManager.transfer_file *)

\* The isinstance chain of transfer_file: the branch taken for (source, target).
select_branch(s, t) ==
    IF IsPath(s) /\ IsPath(t) THEN "local_to_local"
    ELSE IF IsPath(s) /\ IsCloudPath(t) THEN "local_to_cloud"
    ELSE IF IsCloudPath(s) /\ IsPath(t) THEN "cloud_to_local"
    ELSE IF IsCloudPath(s) /\ IsCloudPath(t) THEN "cloud_to_cloud"
    ELSE "unsupported"

\* The arguments a branch hands to its _transfer_* method.
branch_args(s, t) == <<s, t>>

\* The primitive each _transfer_* method calls.
primitive(name) ==
    CASE name = "local_to_local" -> "shutil.copy"
      [] name = "local_to_cloud" -> "upload_from"
      [] name = "cloud_to_local" -> "download_to"
      [] name = "cloud_to_cloud" -> "copy"

\* The byte movement of a _transfer_* method. Result: [exc, files, cloud].
run_transfer(name, s, t, ds, fl, cl) ==
    CASE name = "local_to_local" ->
            LET r == shutil_copy(s.loc, t.loc, ds, fl)
            IN [exc |-> r.exc, files |-> r.files, cloud |-> cl]
      [] name = "local_to_cloud" ->
            LET r == upload_from(t, s.loc, fl, cl)
            IN [exc |-> r.exc, files |-> fl, cloud |-> r.cloud]
      [] name = "cloud_to_local" ->
            LET r == download_to(s, t.loc, ds, fl, cl)
            IN [exc |-> r.exc, files |-> r.files, cloud |-> cl]
      [] name = "cloud_to_cloud" ->
            LET r == cloud_copy(s, t, cl)
            IN [exc |-> r.exc, files |-> fl, cloud |-> r.cloud]

\* Variants of needs_parent: the parent tree made for every target that is
\* not an SshPath, and for no target at all.
needs_parent_unless_ssh(t) == ~IsSshPath(t) /\ t.kind # "object"
needs_parent_never(t) == FALSE

\* if isinstance(target_path, Path): the parent tree is made for such targets.
needs_parent(t) == IsPath(t)

\* Variants of after_transfer: the delete block placed in a finally clause,
\* and the delete block run whatever delete_source is.
after_transfer_finally(exc, d) ==
    IF d THEN "delete" ELSE IF exc # "none" THEN "except" ELSE "success"
after_transfer_always_delete(exc, d) ==
    IF exc # "none" THEN "except" ELSE "delete"

\* Where transfer_file goes once the _transfer_* method has returned or raised:
\* the delete block runs only after a normal return and only if delete_source.
after_transfer(exc, d) ==
    IF exc # "none" THEN "except" ELSE IF d THEN "delete" ELSE "success"

\* Variant of after_unlink: clear_content called whether or not unlink raised.
after_unlink_always_clear(exc) == "clear"

\* Where transfer_file goes once source_file.path.unlink() has returned or raised.
after_unlink(exc) == IF exc = "none" THEN "clear" ELSE "except"

\* Variant of reraise: the exception wrapped in a generic one.
reraise_wrapped(e) == "RuntimeError"

\* What the except clause hands to the caller: a bare raise re-raises e itself.
reraise(e) == e

\* The records the except clause logs before re-raising.
error_log(s, t) == <<Ev("error", "Failed to transfer", s, t)>>

TransferInit ==
    /\ pc = "idle"
    /\ source = NoPath
    /\ target = NoPath
    /\ delete_source = FALSE
    /\ content = "None"
    /\ trace = <<>>
    /\ thrown = "none"
    /\ raised_in = "none"
    /\ outcome = "pending"
    /\ dirs = {<<>>}
    /\ files \in {f \in [LocalFileLocs -> Bytes \cup {Absent}] :
                    /\ f[<<"out", "sub", "a.txt">>] = Absent
                    /\ f[<<"out", "a.txt">>] = Absent
                    /\ f[<<"out">>] = Absent
                    /\ f[<<"a.txt">>] # "y"}
    /\ cloud \in {c \in [CloudPaths -> Bytes \cup {Absent}] :
                    /\ c[[kind |-> "GSPath", loc |-> <<"bucket", "a.txt">>]] = Absent
                    /\ c[[kind |-> "S3Path", loc |-> <<"bucket", "a.txt">>]] # "x"}
    /\ before = [files |-> files, cloud |-> cloud, dirs |-> dirs, content |-> "None"]
    /\ ncalls = 0

Init == TransferInit /\ SshIdle

\* transfer_file is entered: the intent is logged and the paths are read.
Call(s, t, d, c) ==
    /\ pc = "idle"
    /\ ncalls < MaxCalls
    /\ pc' = "mkdir"
    /\ source' = s
    /\ target' = t
    /\ delete_source' = d
    /\ content' = c
    /\ trace' = <<Ev("info", "Transfering", s, t)>>
    /\ thrown' = "none"
    /\ raised_in' = "none"
    /\ outcome' = "pending"
    /\ before' = [files |-> files, cloud |-> cloud, dirs |-> dirs, content |-> c]
    /\ ncalls' = ncalls + 1
    /\ UNCHANGED <<dirs, files, cloud, svars, cvars>>

\* if isinstance(target_path, Path): target_path.parent.mkdir(parents=True,
\* exist_ok=True). It runs before the try block: an error leaves unlogged.
EnsureParent(fail) ==
    /\ pc = "mkdir"
    /\ IF needs_parent(target)
       THEN LET r == IF fail THEN [exc |-> "PermissionError", dirs |-> dirs]
                     ELSE mkdir(Parent(target.loc), dirs, files)
            IN /\ trace' = Append(trace, Ev("call", "mkdir", NoPath, target))
               /\ dirs' = r.dirs
               /\ thrown' = r.exc
               /\ IF r.exc = "none"
                  THEN pc' = "dispatch" /\ outcome' = outcome /\ raised_in' = "none"
                  ELSE pc' = "done" /\ outcome' = r.exc /\ raised_in' = "mkdir"
       ELSE /\ ~fail
            /\ pc' = "dispatch"
            /\ UNCHANGED <<trace, dirs, thrown, raised_in, outcome>>
    /\ UNCHANGED <<source, target, delete_source, content, before, files, cloud, ncalls, svars, cvars>>

\* The isinstance chain and the _transfer_* method it calls.
Dispatch(fail) ==
    /\ pc = "dispatch"
    /\ LET name == select_branch(source, target) IN
       IF name = "unsupported"
       THEN /\ ~fail
            /\ thrown' = "TypeError"
            /\ raised_in' = "classify"
            /\ pc' = "except"
            /\ UNCHANGED <<trace, files, cloud>>
       ELSE LET args == branch_args(source, target)
                r == IF fail
                     THEN [exc |-> "OSError", files |-> files, cloud |-> cloud]
                     ELSE run_transfer(name, args[1], args[2], dirs, files, cloud)
            IN /\ trace' = trace \o <<Ev("strategy", name, args[1], args[2]),
                                      Ev("debug", name, args[1], args[2]),
                                      Ev("call", primitive(name), args[1], args[2])>>
               /\ files' = r.files
               /\ cloud' = r.cloud
               /\ thrown' = r.exc
               /\ raised_in' = IF r.exc = "none" THEN "none" ELSE "strategy"
               /\ pc' = after_transfer(r.exc, delete_source)
    /\ UNCHANGED <<source, target, delete_source, content, outcome, before, dirs, ncalls, svars, cvars>>

\* if delete_source: logger.info(...); source_file.path.unlink()
DeleteSource(fail) ==
    /\ pc = "delete"
    /\ LET r == IF fail
                THEN [exc |-> "PermissionError", files |-> files, cloud |-> cloud]
                ELSE unlink(source, files, cloud)
       IN /\ trace' = trace \o <<Ev("info", "Deleting", source, NoPath),
                                 Ev("call", "unlink", source, NoPath)>>
          /\ files' = r.files
          /\ cloud' = r.cloud
          /\ thrown' = IF r.exc = "none" THEN thrown ELSE r.exc
          /\ raised_in' = IF r.exc = "none" THEN raised_in ELSE "unlink"
          /\ pc' = after_unlink(r.exc)
    /\ UNCHANGED <<source, target, delete_source, content, outcome, before, dirs, ncalls, svars, cvars>>

\* source_file.clear_content(): File.clear_content logs and drops the cache.
ClearContent ==
    /\ pc = "clear"
    /\ trace' = trace \o <<Ev("call", "clear_content", source, NoPath),
                           Ev("info", "Clearing content", source, NoPath)>>
    /\ content' = "None"
    /\ pc' = "success"
    /\ UNCHANGED <<source, target, delete_source, thrown, raised_in, outcome, before,
                   dirs, files, cloud, ncalls, svars, cvars>>

\* logger.info("Successfully transferred ...") and the normal return.
Success ==
    /\ pc = "success"
    /\ trace' = Append(trace, Ev("info", "Successfully transferred", NoPath, target))
    /\ outcome' = "returned"
    /\ pc' = "done"
    /\ UNCHANGED <<source, target, delete_source, content, thrown, raised_in, before,
                   dirs, files, cloud, ncalls, svars, cvars>>

\* except Exception as e: logger.error(...); raise
Except ==
    /\ pc = "except"
    /\ trace' = trace \o error_log(source, target)
    /\ outcome' = reraise(thrown)
    /\ pc' = "done"
    /\ UNCHANGED <<source, target, delete_source, content, thrown, raised_in, before,
                   dirs, files, cloud, ncalls, svars, cvars>>

\* The caller has the result; the manager is ready for the next call.
Return ==
    /\ pc = "done"
    /\ pc' = "idle"
    /\ source' = NoPath
    /\ target' = NoPath
    /\ delete_source' = FALSE
    /\ content' = "None"
    /\ trace' = <<>>
    /\ thrown' = "none"
    /\ raised_in' = "none"
    /\ outcome' = "pending"
    /\ before' = [files |-> files, cloud |-> cloud, dirs |-> dirs, content |-> "None"]
    /\ UNCHANGED <<dirs, files, cloud, ncalls, svars, cvars>>

Next ==
    \/ \E s \in SourcePaths, t \in TargetPaths, d \in BOOLEAN, c \in {"None", "x"} :
          Call(s, t, d, c)
    \/ \E fail \in BOOLEAN : EnsureParent(fail)
    \/ \E fail \in BOOLEAN : Dispatch(fail)
    \/ \E fail \in BOOLEAN : DeleteSource(fail)
    \/ ClearContent
    \/ Success
    \/ Except
    \/ Return

Spec == Init /\ [][Next]_vars

-----------------------------------------------------------------------------
(* Properties of transfer_file *)

Families == {"Local", "Cloud", "RemoteShell"}

\* Positions in the trace of the records with the given op and name.
At(op, name) == {i \in 1..Len(trace) : trace[i].op = op /\ trace[i].name = name}
Strategies == {i \in 1..Len(trace) : trace[i].op = "strategy"}
Primitives == {i \in 1..Len(trace) :
                 trace[i].op = "call" /\ trace[i].name \in
                    {"shutil.copy", "upload_from", "download_to", "copy"}}

\* The running call is past the isinstance chain (it was not ended by mkdir).
PastDispatch == pc \in {"except", "delete", "clear", "success"}
                   \/ (pc = "done" /\ raised_in # "mkdir")

\* The bytes stored at a path handle in a given file system and cloud store.
BytesAt(p, fl, cl) ==
    IF IsPath(p) THEN fl[p.loc] ELSE IF IsCloudPath(p) THEN cl[p] ELSE Absent

\* C1: for every ordered pair of families over {Local, Cloud, RemoteShell},
\* once transfer_file is past its dispatch it has invoked exactly one
\* strategy, the one written for that pair, with the source and target path
\* values it was given.
C1_DispatchesRegisteredStrategy ==
    (PastDispatch /\ Family(source) \in Families /\ Family(target) \in Families)
        => /\ Cardinality(Strategies) = 1
           /\ \A i \in Strategies :
                 trace[i] = Ev("strategy",
                               StrategyFor(Family(source), Family(target)),
                               source, target)

\* C2: a call whose source and target are each a Local, Cloud or RemoteShell
\* path never ends in the unsupported-combination TypeError.
C2_DispatchTotal ==
    (Family(source) \in Families /\ Family(target) \in Families)
        => thrown # "TypeError"

\* C3: when the pair has no dispatch entry and the TypeError is raised, no
\* I/O has been performed: the target's parent directory has not been
\* created, no strategy has run and the source has not been deleted.
C3_NoIOBeforeTypeError ==
    thrown = "TypeError"
        => /\ dirs = before.dirs
           /\ Strategies = {}
           /\ At("call", "unlink") = {}

\* C4: within one call the parent directory tree is made (for Local targets
\* and only for them) before the byte movement starts, and the byte movement
\* is over before the source deletion starts.
C4_StepOrder ==
    /\ \A i \in At("call", "mkdir") : Family(target) = "Local"
    /\ (pc \notin {"idle", "mkdir"} /\ Family(target) = "Local")
          => Cardinality(At("call", "mkdir")) = 1
    /\ \A i \in At("call", "mkdir") : \A j \in Strategies \cup Primitives : i < j
    /\ \A j \in Strategies \cup Primitives : \A k \in At("call", "unlink") : j < k
    /\ (Strategies # {} /\ Family(target) = "Local")
          => Prefixes(Parent(target.loc)) \subseteq dirs

C4_Witness ==
    /\ At("call", "mkdir") # {}
    /\ Primitives # {}
    /\ At("call", "unlink") # {}
    /\ Parent(target.loc) \notin before.dirs

\* C5: if the byte movement raises, the source is never deleted and
\* clear_content is never called, whatever delete_source is: the source's
\* bytes and the cached content are as before the call.
C5_NoDeleteAfterFailedTransfer ==
    raised_in = "strategy"
        => /\ At("call", "unlink") = {}
           /\ At("call", "clear_content") = {}
           /\ content = before.content
           /\ BytesAt(source, files, cloud) = BytesAt(source, before.files, before.cloud)

C5_Witness ==
    /\ raised_in = "strategy"
    /\ delete_source
    /\ pc = "done"
    /\ content # "None"
    /\ BytesAt(source, files, cloud) # Absent

\* C6: with delete_source and a successful transfer the source is deleted
\* exactly once and clear_content is then called exactly once, after the
\* deletion; if the deletion raises, clear_content is not called at all.
C6_DeleteThenClear ==
    /\ (delete_source /\ outcome = "returned")
          => /\ Cardinality(At("call", "unlink")) = 1
             /\ Cardinality(At("call", "clear_content")) = 1
             /\ \A i \in At("call", "unlink") :
                   \A j \in At("call", "clear_content") :
                      i < j /\ trace[i].a = source /\ trace[j].a = source
             /\ BytesAt(source, files, cloud) = Absent
             /\ content = "None"
    /\ \A j \in At("call", "clear_content") :
          \E i \in At("call", "unlink") : i < j
    /\ raised_in = "unlink"
          => At("call", "clear_content") = {} /\ content = before.content

C6_Witness ==
    /\ delete_source
    /\ outcome = "returned"
    /\ before.content # "None"
    /\ BytesAt(source, before.files, before.cloud) # Absent

C6_WitnessUnlinkRaises ==
    raised_in = "unlink" /\ pc = "done" /\ before.content # "None"

\* C7: without delete_source the source is never deleted and clear_content
\* is never called, whether the transfer succeeds or fails: the source's
\* bytes and the cached content stay as they were.
C7_NoDeleteByDefault ==
    (pc # "idle" /\ ~delete_source)
        => /\ At("call", "unlink") = {}
           /\ At("call", "clear_content") = {}
           /\ content = before.content
           /\ BytesAt(source, files, cloud) = BytesAt(source, before.files, before.cloud)

C7_Witness ==
    /\ ~delete_source
    /\ outcome = "returned"
    /\ content # "None"
    /\ BytesAt(source, files, cloud) # Absent

C7_WitnessFailure ==
    ~delete_source /\ pc = "done" /\ raised_in = "strategy" /\ content # "None"

\* C8: if the classification, the strategy or the source deletion raises,
\* exactly one error record naming the source and the target is logged, as
\* the last thing the call does, and the caller gets that same exception;
\* the call does not return normally and no step is run a second time.
C8_LogOnceAndReraise ==
    (pc = "done" /\ raised_in \in {"classify", "strategy", "unlink"})
        => /\ Cardinality({i \in 1..Len(trace) : trace[i].op = "error"}) = 1
           /\ trace[Len(trace)] = Ev("error", "Failed to transfer", source, target)
           /\ outcome = thrown
           /\ outcome \notin {"returned", "pending", "none"}
           /\ At("info", "Successfully transferred") = {}
           /\ Cardinality(Strategies) <= 1
           /\ Cardinality(At("call", "unlink")) <= 1

C8_Witness ==
    pc = "done" /\ raised_in = "unlink" /\ outcome = "PermissionError"

C8_WitnessClassify ==
    pc = "done" /\ raised_in = "classify" /\ outcome = "TypeError"

\* C9: a transfer of an existing local file to a local target whose parent
\* directories do not exist fails only if the environment fails a step;
\* when it returns, the parent directories exist, the target holds exactly
\* the bytes the source held, and with delete_source the source is absent.
C9_LocalToLocalEndToEnd ==
    (/\ pc = "done"
     /\ IsPath(source) /\ IsPath(target)
     /\ before.files[source.loc] # Absent
     /\ Parent(target.loc) \notin before.dirs
     /\ \A q \in Prefixes(Parent(target.loc)) : ~IsFile(before.files, q))
        => /\ outcome \in {"returned", "OSError", "PermissionError"}
           /\ outcome = "returned"
                 => /\ Prefixes(Parent(target.loc)) \subseteq dirs
                    /\ files[target.loc] = before.files[source.loc]
                    /\ delete_source => files[source.loc] = Absent
                    /\ ~delete_source => files[source.loc] = before.files[source.loc]

C9_Witness ==
    /\ pc = "done"
    /\ outcome = "returned"
    /\ delete_source
    /\ source = [kind |-> "PosixPath", loc |-> <<"a.txt">>]
    /\ target = [kind |-> "PosixPath", loc |-> <<"out", "sub", "a.txt">>]
    /\ before.dirs = {<<>>}
    /\ before.files[<<"a.txt">>] = "x"
    /\ files[<<"out", "sub", "a.txt">>] = "x"
    /\ files[<<"a.txt">>] = Absent

-----------------------------------------------------------------------------
(* Properties of the session cache *)

\* Number of connections made so far with connection tuple k.
Connections(k) == Cardinality({c \in 1..Len(clients) : clients[c].key = k})

\* Handles that have obtained a session from their client property.
Connected == {h \in Handles : paths[h].client # 0}

C10_WitnessDistinct ==
    /\ Connected = Handles
    /\ paths["p1"].key # paths["p2"].key
    /\ paths["p1"].client # paths["p2"].client

\* The clients the cache holds.
Cached == {cache[i].client : i \in 1..Len(cache)}

\* The sessions that exist (something refers to them) with an active
\* transport and connection tuple k.
LiveSessions(k) ==
    {c \in Referenced(cache, paths) : clients[c].key = k /\ clients[c].active}

\* C11: when the session a SshPath holds has an inactive transport, the next
\* read of its client property returns a freshly connected session, not the
\* inactive one, and the inactive session is no longer the cache's entry.
C11_InactiveSessionReplaced ==
    (last.op = "client" /\ last.exc = "none" /\ last.stale)
        => /\ last.client # last.held
           /\ clients[last.client].active
           /\ last.held \notin Cached

\* C12: in every reachable state at most one session with an active
\* transport exists per (host, port, user, password, key) tuple.
C12_OneLiveSessionPerTuple ==
    \A c \in Referenced(cache, paths) :
        Cardinality(LiveSessions(clients[c].key)) <= 1

\* C13: once the exit hook has run, no session created through the cache and
\* still referred to, by the cache or by a SshPath instance, has an active
\* transport.
C13_AllClosedAfterExit ==
    exited => \A c \in Referenced(cache, paths) : ~clients[c].active

\* The hook has closed a session that two instances hold and that the cache
\* has evicted.
C13_Witness ==
    /\ exited
    /\ last.op = "atexit"
    /\ \E c \in last.closed :
          /\ paths["p1"].client = c
          /\ paths["p2"].client = c
          /\ c \notin Cached

-----------------------------------------------------------------------------
(* Properties of SshPath's text forms *)

\* Same host, port, user name and path.
SameAddress(a, b) ==
    /\ a.key.hostname = b.key.hostname
    /\ a.key.port = b.key.port
    /\ a.key.username = b.key.username
    /\ a.path = b.path

\* Two instances that differ in their password and in nothing else.
DifferOnlyInPassword(a, b) ==
    /\ SameAddress(a, b)
    /\ a.key.key_filename = b.key.key_filename
    /\ a.key.password # b.key.password

\* C18: str(p) is ssh://[user@]host:port/path, the port always written (22
\* when the URL gave none) and the user part left out exactly when p has no
\* user name; a SshPath constructed from str(p) has p's host, port, user
\* name and path.
C18_StrRoundTrips ==
    /\ last.op = "str"
          => LET p == paths[last.h]
                 tail == SubSeq(last.out, 5, Len(last.out))
                 user == IF p.key.username = <<>> THEN <<>>
                         ELSE p.key.username \o <<"@">>
             IN /\ SubSeq(last.out, 1, 4) = <<"ssh", ":", "/", "/">>
                /\ tail = user \o p.key.hostname \o <<":">> \o str_int(p.key.port)
                               \o p.path
                /\ (last.h \in Handles /\ hostinfo(urlparse(given.url).netloc)[2] = <<>>)
                      => p.key.port = 22
    /\ last.op = "fromstr"
          => /\ last.exc = "none"
             /\ SameAddress(paths[last.to], paths[last.h])

\* C19: the password is in no text form: two SshPath instances that differ
\* only in their password have the same str and the same repr, also when
\* they come from parent or from join.
C19_PasswordNotShown ==
    /\ \A g \in DOMAIN paths, h \in DOMAIN paths :
          DifferOnlyInPassword(paths[g], paths[h])
             => /\ SshPath_str(paths[g]) = SshPath_str(paths[h])
                /\ SshPath_repr(paths[g]) = SshPath_repr(paths[h])
    /\ last.op \in TextForms
          => /\ paths[last.h].key.password \notin Pieces(last.out)
             /\ \A g \in DOMAIN paths :
                   DifferOnlyInPassword(paths[g], paths[last.h])
                      => last.out = IF last.op = "str" THEN SshPath_str(paths[g])
                                    ELSE SshPath_repr(paths[g])

\* repr has been read on an instance that came from parent or join, that
\* has a key file, and whose twin with another password exists.
C19_Witness ==
    /\ last.op = "repr"
    /\ last.h = "q1"
    /\ DOMAIN paths = {"p1", "p2", "q1", "q2"}
    /\ DifferOnlyInPassword(paths["q1"], paths["q2"])
    /\ paths["q1"].path # paths["p1"].path
    /\ paths["q1"].key.key_filename # "None"
    /\ paths["q1"].key.username # <<>>

\* C20: parent and join return a new SshPath with the original's host, port,
\* user name, password and key file, whose path is the POSIX parent or join
\* of the original's path (the parent of / is /); the original instance is
\* left as it was.
C20_ParentJoinFrame ==
    last.op \in {"parent", "join"}
       => /\ last.exc = "none"
          /\ paths[last.to].key = last.was.key
          /\ LET pp == PurePosixPath(last.was.path)
             IN paths[last.to].path =
                   posix_str(IF last.op = "parent" THEN posix_parent(pp)
                             ELSE posix_join(pp, last.other))
          /\ paths[last.h] = last.was

-----------------------------------------------------------------------------
(* Properties of SshPath's sessions and file operations *)

Constructions == {"new", "parent", "join", "fromstr"}
FileOps == {"exists", "is_dir", "mkdir", "read_bytes", "write_bytes", "unlink"}

\* C14: constructing a SshPath (also through parent or join) and reading
\* name, str or is_absolute make no connection and open no sub-session; the
\* first file operation of an instance acquires the session and opens the
\* sub-session; while both are live, a further file operation of the same
\* instance neither connects nor opens another sub-session.
C14_LazySessionPerHandle ==
    [][/\ last'.op \in Constructions \cup Reads
             => /\ UNCHANGED <<cache, clients, sftps>>
                /\ \A h \in DOMAIN paths :
                      \/ (last'.op \in Constructions /\ h = last'.to)
                      \/ paths'[h] = paths[h]
                /\ (last'.op \in Constructions /\ last'.exc = "none")
                      => /\ paths'[last'.to].client = 0
                         /\ paths'[last'.to].sftp = 0
       /\ (last'.op \in FileOps /\ last'.reached)
             => LET old == paths[last'.h]
                    new == paths'[last'.h]
                IN /\ LiveIn(new, clients', sftps')
                   /\ Live(old) => /\ UNCHANGED <<cache, clients, sftps>>
                                   /\ new = old
                   /\ old.sftp = 0 => /\ Len(sftps') = Len(sftps) + 1
                                      /\ new.sftp = Len(sftps')
                                      /\ Len(clients') <= Len(clients) + 1
      ]_vars

\* A file operation has been made on an instance that came from parent or
\* join and whose session and sub-session were live from an earlier one.
C14_Witness ==
    /\ last.op \in FileOps
    /\ last.h = Derived("p1")
    /\ last.reached
    /\ last.live
    /\ Len(sftps) = 2
    /\ Len(clients) = 1

\* The path the most recent operation was made on, and where the server
\* finds it.
LastPath == paths[last.h].path
LastLoc == Loc(LastPath)

\* C15: exists and is_dir return False, without raising, when the remote
\* stat reports not-found; exists returns True when stat succeeds; is_dir
\* returns False when the stat result has no mode; any other failure of stat
\* propagates.
C15_StatOutcomes ==
    (last.op \in {"exists", "is_dir"} /\ last.reached)
       => /\ last.stat.exc = "FileNotFoundError"
                => (last.exc = "none" /\ last.out = "False")
          /\ (last.stat.exc = "none" /\ last.op = "exists")
                => (last.exc = "none" /\ last.out = "True")
          /\ (last.stat.exc = "none" /\ last.op = "is_dir" /\ last.stat.mode = "None")
                => (last.exc = "none" /\ last.out = "False")
          /\ last.stat.exc \notin {"none", "FileNotFoundError"}
                => last.exc = last.stat.exc
          /\ (~Present(LastLoc, last.fs) /\ last.arg # "PermissionError")
                => last.stat.exc = "FileNotFoundError"
          /\ rcalls = <<Req("stat", LastPath)>>
          /\ RemoteFs = last.fs

C15_Witness ==
    /\ last.op = "exists"
    /\ last.reached
    /\ last.stat.exc = "FileNotFoundError"
    /\ last.out = "False"

C15_WitnessNoMode ==
    /\ last.op = "is_dir"
    /\ last.reached
    /\ last.stat = [exc |-> "none", mode |-> "None"]
    /\ LastLoc \in rdirs
    /\ last.out = "False"

C15_WitnessPropagates ==
    /\ last.op = "is_dir"
    /\ last.reached
    /\ last.exc = "PermissionError"

\* C16: unlink(missing_ok) issues one remote remove; when the file is absent
\* it raises not-found if missing_ok is false and returns normally if it is
\* true, and in both cases the remote file system is unchanged.
C16_UnlinkMissing ==
    (last.op = "unlink" /\ last.reached)
       => /\ rcalls = <<Req("remove", LastPath)>>
          /\ ~Present(LastLoc, last.fs)
                => /\ last.arg => last.exc = "none"
                   /\ ~last.arg => last.exc = "FileNotFoundError"
                   /\ RemoteFs = last.fs

C16_Witness ==
    /\ last.op = "unlink"
    /\ last.reached
    /\ last.arg
    /\ ~Present(LastLoc, last.fs)
    /\ last.exc = "none"

C16_WitnessRaises ==
    /\ last.op = "unlink"
    /\ last.reached
    /\ ~last.arg
    /\ last.exc = "FileNotFoundError"

\* The proper prefixes of location l: the directories above it, but the root.
Above(l) == {SubSeq(l, 1, n) : n \in 1..(Len(l) - 1)}

\* The locations the most recent operation sent a mkdir request for.
MkdirLocs == {Loc(rcalls[i].path) : i \in {j \in 1..Len(rcalls) : rcalls[j].call = "mkdir"}}

\* C17: write_bytes on a file path creates the missing parent directories
\* and only them (for /test_dir/file.bin one mkdir, of /test_dir), never a
\* directory at the file's own path, and then opens the file path for binary
\* writing and writes all the data.
C17_WriteBytesMakesParentsOnly ==
    (last.op = "write_bytes" /\ last.reached /\ ~Present(LastLoc, last.fs))
       => /\ MkdirLocs = Above(LastLoc) \ last.fs.dirs
          /\ LastLoc \notin rdirs
          /\ last.exc = "none"
          /\ rcalls[Len(rcalls)] = Req("open wb", LastPath)
          /\ LastLoc \in DOMAIN rfiles
          /\ rfiles[LastLoc] = last.arg

-----------------------------------------------------------------------------
(* Properties of get_path_from_str and of File *)

\* The state that get_path_from_str would touch if it did any I/O: the local
\* and the remote file system, the cloud store and the SSH sessions.
IOState == <<dirs, files, cloud, rdirs, rfiles, rcalls, cache, clients, registry, sftps>>

\* C21: get_path_from_str classifies a string by its prefix and performs no
\* I/O: s3://, gs:// or az:// gives a cloud handle; ssh:// gives a SshPath
\* or the constructor's error and never a local or a cloud handle, an empty
\* hostname always being rejected with ValueError; every other string gives
\* a local handle, the empty string giving the path '.' and not an error.
C21_ResolveByPrefix ==
    [][last'.op = "resolve" =>
          /\ IOState' = IOState
          /\ IF \E pre \in CloudPrefixes : startswith(last'.text, pre)
             THEN last'.res.exc = "none" /\ IsCloudPath(last'.res)
                    /\ last'.res.text = last'.text
             ELSE IF startswith(last'.text, Ssh)
             THEN /\ last'.res.exc \in {"none", "ValueError"}
                  /\ last'.res.exc = "none" <=> IsSshPath(last'.res)
                  /\ hostname(urlparse(last'.text).netloc) = <<>>
                        => last'.res.exc = "ValueError"
                  /\ (hostname(urlparse(last'.text).netloc) # <<>>
                        /\ port(urlparse(last'.text).netloc).exc = "none")
                        => last'.res.exc = "none"
             ELSE /\ last'.res.exc = "none"
                  /\ IsPath(last'.res)
                  /\ last'.text = <<>> => last'.res.text = <<".">>]_vars

C21_Witness ==
    /\ last.op = "resolve"
    /\ last.text = Ssh \o <<"/", "p">>
    /\ last.res.exc = "ValueError"

\* C28: a read(use_cache=True) made while content is stored returns that
\* content without reading the path and leaves it stored; a
\* read(use_cache=False) always reads the path, and what it read replaces
\* the stored content.
C28_ReadCaches ==
    [][last'.op = "read" =>
          /\ (last'.use_cache /\ content # "None")
                => /\ ~last'.read_path
                   /\ last'.exc = "none"
                   /\ last'.out = content
                   /\ content' = content
          /\ ~last'.use_cache
                => /\ last'.read_path
                   /\ last'.exc = "none"
                         => /\ last'.out = files[source.loc]
                            /\ content' = files[source.loc]]_vars

C28_Witness ==
    /\ last.op = "read"
    /\ last.use_cache
    /\ ~last.read_path
    /\ last.out = content
    /\ content # files[source.loc]

\* C22: a path of a cloud subtype (S3Path, GSPath) is always taken as Cloud
\* by transfer_file, as source and as target: the strategy that runs for it
\* is one written for a cloud path in that position and receives the path
\* unchanged, the parent tree is never made for it as for a local target,
\* and with a local or cloud counterpart a strategy does run.
C22_CloudSubtypeIsCloud ==
    /\ \A i \in Strategies :
          /\ IsCloudPath(source)
                => /\ trace[i].name \in {"cloud_to_local", "cloud_to_cloud"}
                   /\ trace[i].a = source
          /\ IsCloudPath(target)
                => /\ trace[i].name \in {"local_to_cloud", "cloud_to_cloud"}
                   /\ trace[i].b = target
    /\ IsCloudPath(target) => At("call", "mkdir") = {}
    /\ (PastDispatch /\ (IsCloudPath(source) \/ IsCloudPath(target))
          /\ Family(source) \in {"Local", "Cloud"}
          /\ Family(target) \in {"Local", "Cloud"})
          => Cardinality(Strategies) = 1

C22_Witness ==
    /\ Strategies # {}
    /\ source.kind = "S3Path"
    /\ target.kind = "GSPath"
    /\ outcome = "returned"

-----------------------------------------------------------------------------
(* Properties of the session cache: failures and capacity *)

\* C24: when the connection cannot be established, get_ssh_client has made
\* exactly one connection attempt, the error reaches the caller, and no
\* client, cache entry or registry entry has been added: the tuple has no
\* cache entry, and the next request for it attempts a connection again.
C24_FailedConnectLeavesNothing ==
    [][/\ (last'.op = "client" /\ last'.exc # "none")
             => /\ last'.asked
                /\ last'.attempts = 1
                /\ cache' = cache
                /\ clients' = clients
                /\ registry' = registry
                /\ paths' = paths
                /\ Find(cache', cache_key(paths[last'.h].key)) = 0
       /\ (last.op = "client" /\ last.exc # "none"
             /\ last'.op = "client" /\ last'.h = last.h)
             => last'.asked /\ last'.attempts = 1]_vars

C24_Witness ==
    /\ last.op = "client"
    /\ last.exc = "SSHException"
    /\ last.attempts = 1
    /\ cache # <<>>
    /\ paths[last.h].client = 0

\* C27: the cache never holds more than 32 entries; a request that misses
\* while the cache is full puts its new session in as the most recent entry
\* in place of the least recently used one; a tuple that was evicted and is
\* requested again gets a newly connected session.
C27_CapacityAndEviction ==
    [][/\ Len(cache') <= maxsize
       /\ (last'.op = "client" /\ last'.asked /\ last'.exc = "none"
             /\ last'.attempts = 1 /\ Len(cache) = maxsize)
             => cache' = Append(Tail(cache),
                                [key |-> cache_key(paths[last'.h].key),
                                 client |-> Len(clients) + 1])
       /\ (last'.op = "client" /\ last'.asked /\ last'.exc = "none"
             /\ Find(cache, cache_key(paths[last'.h].key)) = 0)
             => /\ last'.attempts = 1
                /\ last'.client = Len(clients) + 1
                /\ clients'[last'.client] = [key |-> paths[last'.h].key, active |-> TRUE]
                /\ cache'[Len(cache')].client = last'.client]_vars

C27_Witness ==
    /\ last.op = "client"
    /\ last.asked
    /\ last.attempts = 1
    /\ last.exc = "none"
    /\ Len(cache) = maxsize
    /\ paths[last.h].key \in evicted
    /\ \E c \in 1..(last.client - 1) : clients[c].key = paths[last.h].key

\* C23: with several threads inside get_ssh_client at once, for equal and for
\* different tuples, the cache stays coherent: every caller that gets a
\* session gets one connected with exactly the tuple it asked for, every
\* cache entry holds a session of its own key, no key has two entries, and
\* the cache never holds more than maxsize entries.
C23_CacheCoherentUnderThreads ==
    /\ \A t \in DOMAIN thr :
          (thr[t].pc = "done" /\ thr[t].exc = "none")
             => /\ thr[t].client \in 1..Len(clients)
                /\ clients[thr[t].client].key = thr[t].key
    /\ \A i \in 1..Len(cache) :
          /\ cache[i].client \in 1..Len(clients)
          /\ cache_key(clients[cache[i].client].key) = cache[i].key
          /\ \A j \in 1..Len(cache) : cache[i].key = cache[j].key => i = j
    /\ Len(cache) <= maxsize

C23_Witness ==
    /\ \E t, u \in DOMAIN thr :
          /\ thr[t].pc = "done" /\ thr[u].pc = "done"
          /\ thr[t].exc = "none" /\ thr[u].exc = "none"
          /\ thr[t].key = thr[u].key
          /\ thr[t].client # thr[u].client
    /\ Len(cache) = maxsize
    /\ evicted # {}

-----------------------------------------------------------------------------
(* Properties of mkdir and of the sub-session *)

\* The requests of one kind among the SFTP requests cs, in order, as the
\* locations they name.
Requested(cs, call) ==
    LET of_kind(c) == c.call = call
        named(q) == [i \in 1..Len(q) |-> Loc(q[i].path)]
    IN named(SelectSeq(cs, of_kind))

\* The prefixes of location l from the root downward, the root left out, and
\* those of them that are not present in fs.
Downward(l) == [n \in 1..Len(l) |-> SubSeq(l, 1, n)]
AbsentIn(q, fs) ==
    LET absent(x) == ~Present(x, fs)
    IN SelectSeq(q, absent)

\* C25: mkdir(parents=True) stats each prefix of the path from the root
\* downward and sends a mkdir for exactly the prefixes that were absent, each
\* right after its stat, so that afterwards all of them are directories;
\* called again right after a call that returned, it raises nothing, sends
\* no mkdir and leaves the remote side as it is.
C25_MkdirParentsIdempotent ==
    [][/\ (last'.op = "mkdir" /\ last'.arg /\ last'.reached)
             => LET l == Loc(paths[last'.h].path)
                IN /\ last'.exc = "none"
                   /\ Requested(rcalls', "stat") = Downward(l)
                   /\ Requested(rcalls', "mkdir") = AbsentIn(Downward(l), last'.fs)
                   /\ \A i \in 1..Len(rcalls') :
                         rcalls'[i].call = "mkdir"
                            => /\ i > 1
                               /\ rcalls'[i - 1] = Req("stat", rcalls'[i].path)
                   /\ \A i \in 1..Len(rcalls') : rcalls'[i].call \in {"stat", "mkdir"}
                   /\ rdirs' = rdirs \cup {Downward(l)[n] : n \in
                                             {m \in 1..Len(l) :
                                                ~Present(Downward(l)[m], last'.fs)}}
                   /\ rfiles' = rfiles
       /\ (last.op = "mkdir" /\ last.arg /\ last.reached /\ last.exc = "none"
             /\ last'.op = "mkdir" /\ last'.arg /\ last'.reached /\ last'.h = last.h)
             => /\ last'.exc = "none"
                /\ Requested(rcalls', "mkdir") = <<>>
                /\ rdirs' = rdirs
                /\ rfiles' = rfiles]_vars

\* mkdir(parents=True) has created both missing directories of the path.
C25_Witness ==
    /\ last.op = "mkdir"
    /\ last.arg
    /\ last.reached
    /\ last.exc = "none"
    /\ Len(Requested(rcalls, "mkdir")) = 2
    /\ LastLoc \in rdirs

\* mkdir(parents=True) has run on a path whose directories an earlier call
\* had created.
C25_WitnessAgain ==
    /\ last.op = "mkdir"
    /\ last.arg
    /\ last.reached
    /\ last.exc = "none"
    /\ Requested(rcalls, "mkdir") = <<>>
    /\ LastLoc \in last.fs.dirs
    /\ nwrites = 2

\* C26: every file operation is issued over a sub-session whose socket is
\* open when the operation starts; when the instance's stored sub-session
\* has a closed socket (and no connection attempt fails), a new sub-session
\* is opened over a live session, the operation is issued over it, and the
\* closed one is not the instance's sub-session any more.
C26_OperationOverOpenSubSession ==
    last.op \in FileOps
       => /\ last.reached => LiveIn(paths[last.h], clients, sftps)
          /\ (last.was.sftp # 0 /\ sftps[last.was.sftp].closed
                /\ ~(last.attempts = 1 /\ last.connects = 0))
                => /\ last.reached
                   /\ last.opens = 1
                   /\ paths[last.h].sftp # last.was.sftp

-----------------------------------------------------------------------------
(* Properties of the strategies that touch an SshPath *)

\* The source of a transfer cannot be read in the state as it is.
SourceMissing(sp) ==
    IF IsPath(sp) THEN ~IsFile(files, sp.loc)
    ELSE IF IsCloudPath(sp) THEN cloud[sp] = Absent
    ELSE Loc(paths[HandleOf(sp)].path) \notin DOMAIN rfiles

\* No call on the source comes after a call on the target.
SourceFirst(calls) ==
    \A i, j \in 1..Len(calls) :
       (calls[i].side = "source" /\ calls[j].side = "target") => i < j

\* C29: in each of the five strategies that touch an SshPath the source is
\* read before anything is done on the target; when the read fails the
\* target is not created, opened or written, the target instance opens no
\* session, and the caller gets the exception of the read; when the read
\* succeeds write_bytes is called on the target.
C29_ReadBeforeWrite ==
    [][last'.op = "transfer" =>
         /\ last'.name \in SshStrategies
         /\ SourceFirst(last'.calls)
         /\ SourceMissing(last'.source) => last'.read # "none"
         /\ last'.read # "none" =>
               /\ last'.exc = last'.read
               /\ ~last'.wrote
               /\ \A i \in 1..Len(last'.calls) : last'.calls[i].side = "source"
               /\ files' = files /\ dirs' = dirs /\ cloud' = cloud
               /\ rdirs' = rdirs /\ rfiles' = rfiles
               /\ IsSshPath(last'.target)
                     => paths'[HandleOf(last'.target)] = paths[HandleOf(last'.target)]
         /\ last'.read = "none" => last'.wrote]_vars

\* A transfer between two SshPaths whose read failed, and one of each other
\* strategy that went through.
C29_Witness ==
    /\ last.op = "transfer"
    /\ last.name = "ssh_to_ssh"
    /\ last.read = "FileNotFoundError"
    /\ last.exc = "FileNotFoundError"
C29_WitnessWritten ==
    /\ last.op = "transfer"
    /\ last.name = "ssh_to_local"
    /\ last.exc = "none"
    /\ files[<<"out", "a.txt">>] = "x"

\* C30: two actors that run mkdir(parents=True) at the same time on paths
\* sharing a missing prefix both return without error.
C30_ConcurrentMkdirTolerant ==
    \A a \in DOMAIN thr :
       (a \in Actors /\ thr[a].pc = "done") => thr[a].exc = "none"

====
